---- MODULE Spec2Model ----
(***************************************************************************)
(* Model of the real-estate voice agent: RealEstateVoiceAgent.make_call    *)
(* with its two flows, the OpenAI-backed response provider and the         *)
(* in-memory CRMIntegration ledger (src/voice_agent_with_openai.py,        *)
(* src/openai_integration.py).                                             *)
(*                                                                         *)
(* Python values are modelled as follows: None is the string "None", or    *)
(* the record NoneValue where a dictionary is expected; a dictionary is a  *)
(* record whose domain is the set of keys it holds; a raised exception is  *)
(* the name of its class; the clock counts whole seconds.                  *)
(***************************************************************************)
EXTENDS Bags, Integers, Sequences, FiniteSets, TLC

VARIABLES
    use_openai,            \* RealEstateVoiceAgent.use_openai
    now,                   \* the wall clock, in seconds
    calls,                 \* CRMIntegration.calls: call id -> call record
    appointments,          \* CRMIntegration.appointments
    pc,                    \* position of the running make_call
    raised,                \* exception that left make_call, "None" if none
    client_info,           \* make_call argument
    property_id,           \* make_call argument
    call_id,               \* make_call local
    property_info,         \* make_call local
    conversation_history,  \* make_call local, shared with the flow handlers
    client_response,       \* flow local
    ai_response,           \* flow local
    sentiment,             \* _handle_general_inquiry local
    outcome,               \* flow local
    options,               \* the slots offered and the slot chosen
    ops,                   \* what the running call invoked on the ledger, the
                           \* backend and the random source, in order
    sessions,              \* callers that use the CRMIntegration API directly:
                           \* what each has called so far, with its arguments
    exchange,              \* the last request to the backend and its answer
    properties             \* RealEstateVoiceAgent.properties: the catalog

vars == <<use_openai, now, calls, appointments, pc, raised, client_info,
          property_id, call_id, property_info, conversation_history,
          client_response, ai_response, sentiment, outcome, options, ops,
          sessions, exchange, properties>>

\* the state of the direct users of the ledger and of the provider
direct == <<sessions, exchange>>

----------------------------------------------------------------------------
(* Bounds of the model *)

\* the clock stops advancing at this many seconds
MaxTime == 3

(* Program constants *)

\* random.randint(1000, 9999): the ends of the range of the id suffix
RandLow == 1000
RandHigh == 9999
\* time.sleep(2) in make_call, in seconds
ConnectSleep == 2

NoneStr == "None"
NoneValue == [shape |-> "None"]

----------------------------------------------------------------------------
(* Clock and timestamps *)

\* int(time.time()) at clock value t
EpochSeconds(t) == t

\* f"{n:02d}"
Pad2(n) == (IF n < 10 THEN "0" ELSE "") \o ToString(n)

\* datetime.now().strftime("%Y-%m-%d %H:%M:%S") at clock value t. The date does
\* not change within a run of the model, so the text keeps the time of day.
Strftime(t) ==
    Pad2((t \div 3600) % 24) \o ":" \o Pad2((t \div 60) % 60) \o ":" \o Pad2(t % 60)

DigitValue(c) == CHOOSE d \in 0..9 : ToString(d) = c
TwoDigits(s, i) == 10 * DigitValue(SubSeq(s, i, i)) + DigitValue(SubSeq(s, i + 1, i + 1))

\* datetime.strptime(s, "%Y-%m-%d %H:%M:%S"), in seconds
Strptime(s) == 3600 * TwoDigits(s, 1) + 60 * TwoDigits(s, 4) + TwoDigits(s, 7)

\* a variant that does not pad the seconds
FormatDuration_Unpadded(duration) ==
    ToString(duration \div 60) \o ":" \o ToString(duration % 60)

\* f"{int(duration // 60)}:{int(duration % 60):02d}"
FormatDuration(duration) == ToString(duration \div 60) \o ":" \o Pad2(duration % 60)

----------------------------------------------------------------------------
(* CRMIntegration *)

CallId(t, r) == [t |-> EpochSeconds(t), r |-> r]

Put(f, k, v) == [x \in DOMAIN f \cup {k} |-> IF x = k THEN v ELSE f[x]]

NewCallRecord(client, t) ==
    [client     |-> client,
     start_time |-> Strftime(t),
     status     |-> "in-progress",
     notes      |-> <<>>,
     outcome    |-> NoneStr,
     sentiment  |-> NoneValue]

log_call_start(cs, client, t, r) == Put(cs, CallId(t, r), NewCallRecord(client, t))

\* a variant that appends the note twice
update_call_notes_Twice(cs, id, note, t) ==
    IF id \in DOMAIN cs
    THEN [cs EXCEPT ![id].notes = @ \o <<[timestamp |-> Strftime(t), content |-> note],
                                          [timestamp |-> Strftime(t), content |-> note]>>]
    ELSE cs

\* a variant whose records share one note list
update_call_notes_Shared(cs, id, note, t) ==
    IF id \in DOMAIN cs
    THEN [x \in DOMAIN cs |->
             [cs[x] EXCEPT !.notes =
                  Append(@, [timestamp |-> Strftime(t), content |-> note])]]
    ELSE cs

update_call_notes(cs, id, note, t) ==
    IF id \in DOMAIN cs
    THEN [cs EXCEPT ![id].notes =
              Append(@, [timestamp |-> Strftime(t), content |-> note])]
    ELSE cs

\* a variant that creates the record it does not find
update_client_sentiment_Created(cs, id, s) ==
    IF id \in DOMAIN cs THEN [cs EXCEPT ![id].sentiment = s]
    ELSE Put(cs, id, [sentiment |-> s])

\* a variant that loses the write
update_client_sentiment_Lost(cs, id, s) == cs

update_client_sentiment(cs, id, s) ==
    IF id \in DOMAIN cs THEN [cs EXCEPT ![id].sentiment = s] ELSE cs

\* a variant that loses the write
update_call_outcome_Lost(cs, id, o) == cs

update_call_outcome(cs, id, o) ==
    IF id \in DOMAIN cs THEN [cs EXCEPT ![id].outcome = o] ELSE cs

\* a variant that closes the record without computing the duration
ClosedRecord_NoDuration(rec, t) ==
    [client     |-> rec.client,
     start_time |-> rec.start_time,
     status     |-> "completed",
     notes      |-> rec.notes,
     outcome    |-> rec.outcome,
     sentiment  |-> rec.sentiment,
     end_time   |-> Strftime(t)]

ClosedRecord(rec, t) ==
    [client     |-> rec.client,
     start_time |-> rec.start_time,
     status     |-> "completed",
     notes      |-> rec.notes,
     outcome    |-> rec.outcome,
     sentiment  |-> rec.sentiment,
     end_time   |-> Strftime(t),
     duration   |-> FormatDuration(Strptime(Strftime(t)) - Strptime(rec.start_time))]

\* a variant that closes a record only once
log_call_end_Once(cs, id, t) ==
    IF id \in DOMAIN cs /\ cs[id].status = "in-progress"
    THEN [cs EXCEPT ![id] = ClosedRecord(@, t)]
    ELSE cs

log_call_end(cs, id, t) ==
    IF id \in DOMAIN cs THEN [cs EXCEPT ![id] = ClosedRecord(@, t)] ELSE cs

\* the attributes of a Python str that the program could ask for
StrAttributes == {"strip", "replace", "title", "lower", "format"}

\* a variant in which time names the module
TimeDotTime_Module(time) == "None"

\* In schedule_appointment the parameter named time hides the module time, so
\* time.time() looks the attribute "time" up on the str every call site passes.
TimeDotTime(time) ==
    IF "time" \in StrAttributes THEN "None" ELSE "AttributeError"

NewAppointment(client, date, time, pid, t, r) ==
    [id          |-> [t |-> EpochSeconds(t), r |-> r],
     client      |-> client,
     date        |-> date,
     time        |-> time,
     property_id |-> pid,
     status      |-> "scheduled",
     created_at  |-> Strftime(t)]

\* the result: the exception raised ("None" if none) and the appointment list
schedule_appointment(apps, client, date, time, pid, t, r) ==
    IF TimeDotTime(time) # "None"
    THEN [raised |-> TimeDotTime(time), appointments |-> apps]
    ELSE [raised |-> "None",
          appointments |-> Append(apps, NewAppointment(client, date, time, pid, t, r))]

----------------------------------------------------------------------------
(* The catalog and the response provider *)

Get(d, k, default) == IF k \in DOMAIN d THEN d[k] ELSE default

\* _load_properties, lines 34-69: the records as they are written in the source
Properties ==
    << [id |-> "prop001", name |-> "Lakeside Villa", type |-> "Residential",
        price |-> 1250000, address |-> "123 Lake Dr, Waterfront, CA",
        features |-> "4 bed, 3 bath, 3,200 sq ft",
        description |-> "Luxurious lakefront property with panoramic water views"],
       [id |-> "prop002", name |-> "Downtown Condo", type |-> "Residential",
        price |-> 650000, address |-> "456 Main St #302, Downtown, CA",
        features |-> "2 bed, 2 bath, 1,100 sq ft",
        description |-> "Modern condo in the heart of downtown with city views"],
       [id |-> "prop003", name |-> "Commercial Office", type |-> "Commercial",
        price |-> 2800000, address |-> "789 Business Ave, Commerce, CA",
        features |-> "12,000 sq ft, 3 floors",
        description |-> "Prime commercial space in the business district"],
       [id |-> "prop004", name |-> "Suburban House", type |-> "Residential",
        price |-> 875000, address |-> "321 Oak St, Suburbia, CA",
        features |-> "3 bed, 2.5 bath, 2,400 sq ft",
        description |-> "Family home in a quiet suburban neighborhood"] >>

\* what the backend answers to a description request: a text (which may be
\* empty), or it fails
DescriptionTexts == {"<generated description>", ""}
DescriptionAnswers == DescriptionTexts \cup {"<backend error>"}

DescriptionPlaceholder == "Property description not available at this time."

\* OpenAIIntegration.generate_property_description: the backend's text; on
\* failure the placeholder is returned, nothing is raised
generate_property_description(answer) ==
    IF answer \in DescriptionTexts THEN answer ELSE DescriptionPlaceholder

\* the attributes of the agent when __init__ calls _load_properties (line 12)
ConstructionAttrs == {"voice_type", "speaking_rate"}

\* the attributes of the agent once __init__ has returned; openai is set only
\* when OpenAIIntegration was constructed
AgentAttrs(use) ==
    {"voice_type", "speaking_rate", "properties", "scripts", "crm", "use_openai"}
    \cup (IF use THEN {"openai"} ELSE {})

\* _load_properties on an agent with the attributes attrs: the descriptions
\* are generated when hasattr(self, 'openai') and self.use_openai. answers[i]
\* is the backend's answer to the request for record i.
load_properties(attrs, use, answers) ==
    [i \in DOMAIN Properties |->
        IF "openai" \in attrs /\ use
        THEN [Properties[i] EXCEPT
                  !.description = generate_property_description(answers[i])]
        ELSE Properties[i]]

\* the answers of the backend to the description requests, one per record
DescriptionAnswerLists ==
    {[i \in DOMAIN Properties |-> "<generated description>"],
     [i \in DOMAIN Properties |-> "<backend error>"],
     [i \in DOMAIN Properties |->
         IF i = 1 THEN "<backend error>" ELSE IF i = 2 THEN "" ELSE "<generated description>"]}

\* next((p for p in self.properties if p["id"] == property_id), None)
FindProperty(pid) ==
    LET hits == {i \in DOMAIN properties : properties[i].id = pid}
    IN  IF hits = {} THEN NoneValue
        ELSE properties[CHOOSE i \in hits : \A j \in hits : i <= j]

\* 'Downtown' in property_info['address']
DowntownInAddress(p) == p.address \in {"456 Main St #302, Downtown, CA"}

\* OpenAIIntegration.__init__: api_key or os.environ.get("OPENAI_API_KEY")
OpenAIInit(api_key, env_key) ==
    LET key == IF api_key \notin {NoneStr, ""} THEN api_key ELSE env_key
    IN  IF key \in {NoneStr, ""} THEN "ValueError" ELSE "None"

\* RealEstateVoiceAgent.__init__: use_openai after the try/except
AgentUseOpenAI(api_key, env_key) == OpenAIInit(api_key, env_key) = "None"

Apology ==
    "I apologize, but I'm having trouble generating a response right now. Let me connect you with a human agent who can assist you further."

\* what the backend answers to a chat completion: a text, or it fails
BackendTexts == {"<backend text>"}
BackendAnswers == BackendTexts \cup {"<backend error>"}

\* a variant that answers a failure with an empty text
generate_response_Silent(answer) ==
    IF answer \in BackendTexts THEN answer ELSE ""

\* OpenAIIntegration.generate_response: the backend's text, the apology on failure
generate_response(answer) ==
    IF answer \in BackendTexts THEN answer ELSE Apology

DefaultSentiment ==
    [shape |-> "dict", sentiment |-> "neutral", interest_level |-> "medium",
     key_concerns |-> <<>>, preferences |-> <<>>,
     next_action |-> "ask_follow_up_questions"]

Sentiments == {"positive", "neutral", "negative"}
InterestLevels == {"high", "medium", "low"}

\* JSON values the backend may answer with, after json.loads
WellFormedAnalyses ==
    {[shape |-> "dict", sentiment |-> s, interest_level |-> i,
      key_concerns |-> <<>>, preferences |-> <<>>, next_action |-> "schedule_viewing"] :
        s \in Sentiments, i \in InterestLevels}
MalformedAnalyses ==
    {[shape |-> "dict", sentiment |-> "positive"],
     [shape |-> "dict", sentiment |-> "positive", interest_level |-> "very high",
      key_concerns |-> <<>>, preferences |-> <<>>, next_action |-> "schedule_viewing"],
     [shape |-> "list"],
     NoneValue}
ParsedAnalyses == WellFormedAnalyses \cup MalformedAnalyses
\* the backend call raises, or its text is not JSON
FailedAnalyses == {[shape |-> "backend error"], [shape |-> "not json"]}
AnalysisAnswers == ParsedAnalyses \cup FailedAnalyses

\* a variant without the except branch
analyze_client_sentiment_Raw(answer) == answer

\* OpenAIIntegration.analyze_client_sentiment: json.loads of the answer,
\* returned as it is; the default assessment when the call or the parse raises
analyze_client_sentiment(answer) ==
    IF answer \in FailedAnalyses THEN DefaultSentiment ELSE answer

\* a variant that reads the field as dict.get does: no exception
InterestLevelOf_Lenient(s) ==
    IF s.shape = "dict" /\ "interest_level" \in DOMAIN s
    THEN [raised |-> "None", value |-> s.interest_level]
    ELSE [raised |-> "None", value |-> ""]

\* sentiment["interest_level"]: the value, or the exception the subscript raises
InterestLevelOf(s) ==
    IF s.shape = "dict"
    THEN IF "interest_level" \in DOMAIN s
         THEN [raised |-> "None", value |-> s.interest_level]
         ELSE [raised |-> "KeyError", value |-> ""]
    ELSE [raised |-> "TypeError", value |-> ""]

\* a variant with the medium and the low branch exchanged
OutcomeFromInterest_Swapped(level) ==
    IF level = "high" THEN "appointment_scheduled"
    ELSE IF level = "medium" THEN "follow_up_required"
    ELSE "information_provided"

\* lines 250-255 of _handle_general_inquiry
OutcomeFromInterest(level) ==
    IF level = "high" THEN "appointment_scheduled"
    ELSE IF level = "medium" THEN "information_provided"
    ELSE "follow_up_required"

outcomes == <<"appointment_scheduled", "information_provided",
              "follow_up_required", "not_interested">>
\* weights = [0.25, 0.4, 0.2, 0.15], in hundredths
weights == <<25, 40, 20, 15>>

RECURSIVE SumTo(_, _)
SumTo(w, n) == IF n = 0 THEN 0 ELSE SumTo(w, n - 1) + w[n]

\* random.choices(outcomes, weights=weights, k=1)[0]: u is random() * total,
\* in hundredths; the index is bisect(cum_weights, u, 0, n - 1)
WeightedChoice(u) ==
    LET n == Len(outcomes)
        below == {i \in 1..(n - 1) : SumTo(weights, i) <= u}
    IN  outcomes[Cardinality(below) + 1]
\* the values of random() * total the model draws: every DrawStep hundredths
DrawStep == 5
Draws == {u \in 0..(SumTo(weights, Len(weights)) - 1) : u % DrawStep = 0}

Lowercase == "abcdefghijklmnopqrstuvwxyz"
Uppercase == "ABCDEFGHIJKLMNOPQRSTUVWXYZ"
Char(s, i) == SubSeq(s, i, i)
IsLower(c) == \E i \in 1..Len(Lowercase) : Char(Lowercase, i) = c
IsUpper(c) == \E i \in 1..Len(Uppercase) : Char(Uppercase, i) = c
ToUpper(c) ==
    IF IsLower(c)
    THEN Char(Uppercase, CHOOSE i \in 1..Len(Lowercase) : Char(Lowercase, i) = c)
    ELSE c
ToLower(c) ==
    IF IsUpper(c)
    THEN Char(Lowercase, CHOOSE i \in 1..Len(Uppercase) : Char(Uppercase, i) = c)
    ELSE c

RECURSIVE ReplaceChar(_, _, _)
\* s.replace(old, new) for one-character old and new
ReplaceChar(s, old, new) ==
    IF Len(s) = 0 THEN ""
    ELSE (IF Char(s, 1) = old THEN new ELSE Char(s, 1))
         \o ReplaceChar(SubSeq(s, 2, Len(s)), old, new)

RECURSIVE TitleFrom(_, _)
\* str.title(): a letter that follows a non-letter is upper-cased, every
\* other letter lower-cased
TitleFrom(s, afterLetter) ==
    IF Len(s) = 0 THEN ""
    ELSE LET c == Char(s, 1)
             letter == IsLower(c) \/ IsUpper(c)
         IN  (IF afterLetter THEN ToLower(c) ELSE ToUpper(c))
             \o TitleFrom(SubSeq(s, 2, Len(s)), letter)
Title(s) == TitleFrom(s, FALSE)

RECURSIVE Lower(_)
\* str.lower()
Lower(s) ==
    IF Len(s) = 0 THEN "" ELSE ToLower(Char(s, 1)) \o Lower(SubSeq(s, 2, Len(s)))

\* outcome.replace("_", " ").title()
OutcomeText(o) == Title(ReplaceChar(o, "_", " "))

----------------------------------------------------------------------------
(* Calendar dates: [year, month, day] *)

IsLeap(y) == (y % 4 = 0 /\ y % 100 # 0) \/ y % 400 = 0

DaysInMonth(y, m) ==
    IF m = 2 THEN (IF IsLeap(y) THEN 29 ELSE 28)
    ELSE IF m \in {4, 6, 9, 11} THEN 30 ELSE 31

\* datetime.replace(day=d): ValueError when the month has no such day
ReplaceDay(date, d) ==
    IF d >= 1 /\ d <= DaysInMonth(date.year, date.month)
    THEN [raised |-> "None", value |-> [date EXCEPT !.day = d]]
    ELSE [raised |-> "ValueError", value |-> date]

NextDay(date) ==
    IF date.day < DaysInMonth(date.year, date.month)
    THEN [date EXCEPT !.day = @ + 1]
    ELSE IF date.month < 12
         THEN [year |-> date.year, month |-> date.month + 1, day |-> 1]
         ELSE [year |-> date.year + 1, month |-> 1, day |-> 1]

RECURSIVE AddDays(_, _)
\* date + timedelta(days=k)
AddDays(date, k) == IF k = 0 THEN date ELSE AddDays(NextDay(date), k - 1)

RECURSIVE DaysBeforeMonth(_, _)
DaysBeforeMonth(y, m) ==
    IF m = 1 THEN 0 ELSE DaysBeforeMonth(y, m - 1) + DaysInMonth(y, m - 1)

\* days before 1 January of year y, counted from 1 January of year 1
DaysBeforeYear(y) ==
    LET p == y - 1 IN p * 365 + p \div 4 - p \div 100 + p \div 400

\* date.toordinal()
ToOrdinal(date) ==
    DaysBeforeYear(date.year) + DaysBeforeMonth(date.year, date.month) + date.day

DayNames == <<"Monday", "Tuesday", "Wednesday", "Thursday", "Friday",
              "Saturday", "Sunday">>
MonthNames == <<"January", "February", "March", "April", "May", "June", "July",
                "August", "September", "October", "November", "December">>

\* %A: date.weekday() is (toordinal() + 6) % 7, Monday first
Weekday(date) == DayNames[((ToOrdinal(date) + 6) % 7) + 1]

\* strftime("%A, %B %d")
StrftimeDate(date) ==
    Weekday(date) \o ", " \o MonthNames[date.month] \o " " \o Pad2(date.day)

\* the values of datetime.now().date() the model runs the flows on
TodayDates ==
    {[year |-> 2026, month |-> 1, day |-> 15],
     [year |-> 2026, month |-> 4, day |-> 29],
     [year |-> 2026, month |-> 4, day |-> 30],
     [year |-> 2028, month |-> 2, day |-> 28],
     [year |-> 2026, month |-> 12, day |-> 31],
     [year |-> 2026, month |-> 11, day |-> 2]}

\* lines 269-273 of _handle_general_inquiry: the candidate dates, or the
\* exception datetime.replace raises
GeneralAvailableDates(today) ==
    LET d1 == ReplaceDay(today, today.day + 1)
        d2 == ReplaceDay(today, today.day + 2)
    IN  IF d1.raised # "None" THEN [raised |-> d1.raised, value |-> <<>>]
        ELSE IF d2.raised # "None" THEN [raised |-> d2.raised, value |-> <<>>]
        ELSE [raised |-> "None",
              value |-> <<StrftimeDate(today), StrftimeDate(d1.value),
                          StrftimeDate(d2.value)>>]

GeneralAvailableTimes == <<"10:00 AM", "1:00 PM", "3:30 PM", "5:00 PM">>

\* lines 388-393 of _handle_property_inquiry
PropertyAvailableDates(today) ==
    <<StrftimeDate(today), StrftimeDate(AddDays(today, 1)),
      StrftimeDate(AddDays(today, 2))>>

PropertyAvailableTimes == <<"10:00 AM", "2:00 PM">>

Range(seq) == {seq[i] : i \in DOMAIN seq}

----------------------------------------------------------------------------
(* Scripts and canned replies *)

\* a variant with a fifth phrasing, one the mapping has no key for
GeneralClientResponses_Fifth ==
    {"Yes, I'd like to hear more about the properties you have.",
     "I'm not sure if I'm ready to view properties just yet.",
     "What kind of properties do you have in that area?",
     "I'm specifically looking for something with a garage.",
     "Do you have anything with a pool?"}

GeneralClientResponses ==
    {"Yes, I'd like to hear more about the properties you have.",
     "I'm not sure if I'm ready to view properties just yet.",
     "What kind of properties do you have in that area?",
     "I'm specifically looking for something with a garage."}

PropertyClientResponses ==
    {"That sounds interesting. Is parking included?",
     "What are the HOA fees?",
     "Is it close to public transportation?",
     "I'd like to schedule a viewing."}

ScheduleViewing == "I'd like to schedule a viewing."

\* a variant that answers every client turn with the default reply
GeneralAiResponse_Default(reply) ==
    "I understand. Let me find some properties that would match your needs."

\* ai_responses.get(client_response, default) of _handle_general_inquiry
GeneralAiResponse(reply) ==
    CASE reply = "Yes, I'd like to hear more about the properties you have." ->
           "Great! We have several properties that might interest you. One of our most popular listings is a modern two-bedroom condo in the heart of downtown. It features an open floor plan, high ceilings, and a private balcony with city views. It's priced at $650,000."
      [] reply = "I'm not sure if I'm ready to view properties just yet." ->
           "I completely understand. Would you like me to tell you a bit more about the properties we have available in the downtown area? This might help you decide if you'd like to schedule a viewing."
      [] reply = "What kind of properties do you have in that area?" ->
           "In the downtown area, we have a mix of modern condos, luxury apartments, and a few townhouses. Our most popular listing is a two-bedroom condo with an open floor plan and city views, priced at $650,000. We also have a three-bedroom townhouse with a rooftop terrace for $875,000."
      [] reply = "I'm specifically looking for something with a garage." ->
           "We do have several properties with garage parking. Our downtown condo comes with one dedicated parking space in the secure underground garage. We also have a townhouse in the suburban area with a two-car garage, priced at $875,000. Would either of these interest you?"
      [] OTHER -> "I understand. Let me find some properties that would match your needs."

\* a variant that answers as if every property were residential
PropertyAiResponse_Residential(reply, p) ==
    CASE reply = "What are the HOA fees?" ->
           "The HOA fees for " \o p.name \o " are $450 per month. This includes building maintenance, security, and access to amenities like the gym and pool."
      [] OTHER ->
           "Thank you for your interest in " \o p.name \o ". I'll make a note of your question and have our property specialist get back to you with more details."

\* ai_responses.get(client_response, default) of _handle_property_inquiry
PropertyAiResponse(reply, p) ==
    LET res == p.type = "Residential"
    IN
    CASE reply = "That sounds interesting. Is parking included?" ->
           "Yes, the " \o p.name \o " comes with dedicated parking. For this specific property, you get "
           \o (IF res THEN "one assigned space in the underground garage"
                      ELSE "multiple parking spaces in the private lot") \o "."
      [] reply = "What are the HOA fees?" ->
           "The HOA fees for " \o p.name \o " are "
           \o (IF res THEN "$450 per month"
                      ELSE "not applicable as this is a commercial property with a different fee structure")
           \o ". This includes "
           \o (IF res THEN "building maintenance, security, and access to amenities like the gym and pool"
                      ELSE "common area maintenance and security") \o "."
      [] reply = "Is it close to public transportation?" ->
           "Yes, " \o p.name \o " is very conveniently located. There's a "
           \o (IF DowntownInAddress(p) THEN "subway station just two blocks away"
                                       ELSE "bus stop within walking distance")
           \o ", and several bus lines run nearby."
      [] reply = "I'd like to schedule a viewing." ->
           "That's great! I'd be happy to arrange that for you. We have availability tomorrow at 2:00 PM or Friday at 10:00 AM. Which would work better for your schedule?"
      [] OTHER ->
           "Thank you for your interest in " \o p.name \o ". I'll make a note of your question and have our property specialist get back to you with more details."

Digits3(n) ==
    (IF n < 100 THEN "0" ELSE "") \o (IF n < 10 THEN "0" ELSE "") \o ToString(n)

RECURSIVE Thousands(_)
\* f"{n:,}"
Thousands(n) ==
    IF n < 1000 THEN ToString(n)
    ELSE Thousands(n \div 1000) \o "," \o Digits3(n % 1000)

\* self.scripts["initial_contact"].format(...).strip(); runs of blanks between
\* the paragraphs are written as one newline
InitialContactScript(client) ==
    "Hello " \o client.name \o ", this is Sarah from Premier Real Estate.\n"
    \o "I'm reaching out because I noticed you recently expressed interest in "
    \o Get(client, "interest", "residential") \o " properties in the "
    \o Get(client, "location", "downtown") \o " area.\n"
    \o "We have several new listings that match your criteria. Would you be interested in hearing more about them or perhaps scheduling a viewing?\n"
    \o "[If yes] Great! Let me tell you about a few properties that might interest you...\n"
    \o "[If no] I understand. Would it be alright if I follow up with you in the future when we have new listings that match your preferences?"

\* self.scripts["property_details"].format(...).strip()
PropertyDetailsScript(p) ==
    "The " \o p.name \o " is a beautiful " \o Lower(p.type) \o " located at "
    \o p.address \o ".\n"
    \o "It features " \o p.features \o " and is priced at $" \o Thousands(p.price) \o ".\n"
    \o p.description \o "\n"
    \o "Would you be interested in scheduling a viewing of this property?"

\* f"Client: {client_response}\nAgent: {ai_response}"
NoteText(reply, answer) == "Client: " \o reply \o "\nAgent: " \o answer

\* a variant that files every turn under the assistant
Turn_Assistant(role, content) == [role |-> "assistant", content |-> content]

\* entries of conversation_history
Turn(role, content) == [role |-> role, content |-> content]

----------------------------------------------------------------------------
(* The request generate_response builds *)

AgentName == "Sarah"

\* truth value of a str or None
Truthy(v) == v \notin {NoneStr, ""}

\* an optional list argument: None, or a list with its items
ListOf(items) == [shape |-> "list", items |-> items]

\* truth value of a list, a dict or None
NonEmpty(v) == v # NoneValue /\ v # ListOf(<< >>)

\* lines 47-52 of generate_response; runs of blanks are written as one blank
SystemBase(agent_name) ==
    "You are an experienced real estate agent named " \o agent_name \o ". "
    \o "You are professional, knowledgeable, and friendly. Your goal is to help potential clients "
    \o "find properties that match their needs and schedule viewings when appropriate.\n"
    \o "Keep your responses concise but informative. Focus on providing value to the potential client.\n"

\* lines 56-64 of generate_response
PropertyDetails(p) ==
    "\nYou are currently discussing this property:"
    \o "\n- Name: " \o Get(p, "name", "N/A")
    \o "\n- Type: " \o Get(p, "type", "N/A")
    \o "\n- Price: $" \o Thousands(Get(p, "price", 0))
    \o "\n- Address: " \o Get(p, "address", "N/A")
    \o "\n- Features: " \o Get(p, "features", "N/A")
    \o "\n- Description: " \o Get(p, "description", "N/A") \o "\n"

\* lines 47-68 of generate_response
SystemMessage(p, agent_name, agent_context) ==
    SystemBase(agent_name)
    \o (IF NonEmpty(p) THEN PropertyDetails(p) ELSE "")
    \o (IF Truthy(agent_context) THEN "\n\nAdditional context: " \o agent_context ELSE "")

\* a variant that does not append the current client message
RequestMessages_Once(client_message, history, p, agent_name, agent_context) ==
    <<Turn("system", SystemMessage(p, agent_name, agent_context))>>
    \o (IF NonEmpty(history) THEN history.items ELSE << >>)

\* lines 71-83 of generate_response: the message list of the request
RequestMessages(client_message, history, p, agent_name, agent_context) ==
    <<Turn("system", SystemMessage(p, agent_name, agent_context))>>
    \o (IF NonEmpty(history) THEN history.items ELSE << >>)
    \o <<Turn("user", client_message)>>

----------------------------------------------------------------------------
(* The agent: construction and make_call *)

Clients ==
    {[id |-> "client123", name |-> "John Smith", phone |-> "(555) 123-4567",
      interest |-> "commercial", location |-> "suburbs"],
     [id |-> "test_client_001", name |-> "Jane Doe", phone |-> "(555) 987-6543"]}

\* property_id arguments: none, two catalog ids, an id that is not in the catalog
PropertyIdArgs == {NoneStr, "prop002", "prop003", "prop999"}

\* openai_api_key arguments and OPENAI_API_KEY values
ApiKeyArgs == {NoneStr, "", "sk-arg"}
EnvKeys == {NoneStr, "sk-env"}

\* the id suffixes the model draws: the two ends of the range
Suffixes == {RandLow, RandHigh}

InCall == {"general_inquiry", "general_outcome", "general_finish",
           "property_inquiry", "property_finish", "end_call"}

Init ==
    /\ \E k \in ApiKeyArgs, e \in EnvKeys : use_openai = AgentUseOpenAI(k, e)
    /\ now = 0
    /\ calls = << >>
    /\ appointments = << >>
    /\ pc = "idle"
    /\ raised = "None"
    /\ client_info = NoneValue
    /\ property_id = NoneStr
    /\ call_id = NoneValue
    /\ property_info = NoneValue
    /\ conversation_history = << >>
    /\ client_response = NoneStr
    /\ ai_response = NoneStr
    /\ sentiment = NoneValue
    /\ outcome = NoneStr
    /\ options = NoneValue
    /\ ops = << >>
    /\ sessions = << >>
    /\ exchange = NoneValue
    /\ \E a \in DescriptionAnswerLists :
           properties = load_properties(ConstructionAttrs, FALSE, a)

\* make_call, lines 124-154, on a newly constructed agent: connect, open the
\* call record, select the flow
MakeCall(c, pid, r) ==
    LET t == now + ConnectSleep
        info == IF Truthy(pid) THEN FindProperty(pid) ELSE NoneValue
    IN  /\ pc = "idle"
        /\ t <= MaxTime
        /\ now' = t
        /\ calls' = log_call_start(calls, c, t, r)
        /\ call_id' = CallId(t, r)
        /\ client_info' = c
        /\ property_id' = pid
        /\ property_info' = info
        /\ pc' = IF info # NoneValue THEN "property_inquiry" ELSE "general_inquiry"
        /\ raised' = "None"
        /\ conversation_history' = << >>
        /\ client_response' = NoneStr
        /\ ai_response' = NoneStr
        /\ sentiment' = NoneValue
        /\ outcome' = NoneStr
        /\ options' = NoneValue
        /\ ops' = <<"log_call_start">>
        /\ UNCHANGED <<direct, properties, use_openai, appointments>>

\* _handle_general_inquiry, lines 162-241: greeting, client turn, reply, note
GeneralInquiryTalk(a1, reply, a2) ==
    LET script == IF use_openai THEN generate_response(a1)
                  ELSE InitialContactScript(client_info)
        answer == IF use_openai THEN generate_response(a2)
                  ELSE GeneralAiResponse(reply)
        \* lines 208-215: the client turn is in the history that is passed
        request == RequestMessages(reply,
                       ListOf(conversation_history \o
                              <<Turn("assistant", script), Turn("user", reply)>>),
                       NoneValue, AgentName, NoneStr)
    IN  /\ pc = "general_inquiry"
        /\ conversation_history' = conversation_history \o
               <<Turn("assistant", script), Turn("user", reply),
                 Turn("assistant", answer)>>
        /\ exchange' = IF use_openai THEN Put(exchange, "messages", request) ELSE exchange
        /\ client_response' = reply
        /\ ai_response' = answer
        /\ calls' = update_call_notes(calls, call_id, NoteText(reply, answer), now)
        /\ ops' = ops \o (IF use_openai THEN <<"generate_response", "generate_response">>
                          ELSE << >>) \o <<"update_call_notes">>
        /\ pc' = "general_outcome"
        /\ UNCHANGED <<sessions, properties, use_openai, now, appointments, raised, client_info,
                       property_id, call_id, property_info, sentiment, outcome,
                       options>>

\* _handle_general_inquiry, lines 244-260: the generative variant
GeneralSentimentOutcome(analysis) ==
    LET s == analyze_client_sentiment(analysis)
        level == InterestLevelOf(s)
    IN  /\ sentiment' = s
        /\ calls' = update_client_sentiment(calls, call_id, s)
        /\ ops' = ops \o <<"analyze_client_sentiment", "update_client_sentiment">>
                      \o (IF level.raised = "None" THEN << >> ELSE <<"random.choices">>)
        /\ IF level.raised = "None"
           THEN outcome' = OutcomeFromInterest(level.value)
           ELSE \E u \in Draws : outcome' = WeightedChoice(u)

\* _handle_general_inquiry, lines 261-265: the template variant
GeneralRandomOutcome ==
    /\ \E u \in Draws : outcome' = WeightedChoice(u)
    /\ ops' = Append(ops, "random.choices")
    /\ UNCHANGED <<sentiment, calls>>

\* a variant that assesses the client under either strategy
GeneralOutcome_Assessed ==
    /\ pc = "general_outcome"
    /\ \E analysis \in AnalysisAnswers : GeneralSentimentOutcome(analysis)
    /\ pc' = "general_finish"
    /\ UNCHANGED <<direct, properties, use_openai, now, appointments, raised, client_info,
                   property_id, call_id, property_info, conversation_history,
                   client_response, ai_response, options>>

\* _handle_general_inquiry, lines 243-265: sentiment and outcome
GeneralOutcome ==
    /\ pc = "general_outcome"
    /\ IF use_openai
       THEN \E analysis \in AnalysisAnswers : GeneralSentimentOutcome(analysis)
       ELSE GeneralRandomOutcome
    /\ pc' = "general_finish"
    /\ UNCHANGED <<direct, properties, use_openai, now, appointments, raised, client_info,
                   property_id, call_id, property_info, conversation_history,
                   client_response, ai_response, options>>

\* an exception leaves the flow handler and make_call: the frame is gone
Raise(e) ==
    /\ pc' = "raised"
    /\ raised' = e

\* _handle_general_inquiry, lines 276-303: offer two slots, book the first
GeneralBook(d1, t1, d2, t2, r) ==
    LET booked == schedule_appointment(appointments, client_info, d1, t1, NoneStr, now, r)
    IN  /\ ops' = ops \o (IF use_openai THEN <<"generate_response">> ELSE << >>)
                      \o <<"schedule_appointment">>
                      \o (IF booked.raised = "None" THEN <<"update_call_outcome">> ELSE << >>)
        /\ IF booked.raised # "None"
           THEN /\ Raise(booked.raised)
                /\ UNCHANGED <<calls, appointments, options>>
           ELSE /\ appointments' = booked.appointments
                /\ calls' = update_call_outcome(calls, call_id, "Appointment scheduled")
                /\ options' = [date_option_1 |-> d1, time_option_1 |-> t1,
                               date_option_2 |-> d2, time_option_2 |-> t2,
                               selected_date |-> d1, selected_time |-> t1]
                /\ pc' = "end_call"
                /\ UNCHANGED raised

\* _handle_general_inquiry, lines 267-303: the outcome is appointment_scheduled
GeneralSchedule(today) ==
    LET dates == GeneralAvailableDates(today)
    IN  /\ pc = "general_finish"
        /\ outcome = "appointment_scheduled"
        /\ IF dates.raised # "None"
           THEN /\ Raise(dates.raised)
                /\ UNCHANGED <<calls, appointments, options, ops>>
           ELSE \E d1 \in Range(dates.value), t1 \in Range(GeneralAvailableTimes) :
                \E d2 \in Range(dates.value) \ {d1},
                   t2 \in Range(GeneralAvailableTimes) \ {t1} :
                \E r \in Suffixes :
                    GeneralBook(d1, t1, d2, t2, r)
        /\ UNCHANGED <<direct, properties, use_openai, now, client_info, property_id, call_id,
                       property_info, conversation_history, client_response,
                       ai_response, sentiment, outcome>>

\* _handle_general_inquiry, lines 304-305: every other outcome
GeneralRecordOutcome ==
    /\ pc = "general_finish"
    /\ outcome # "appointment_scheduled"
    /\ calls' = update_call_outcome(calls, call_id, OutcomeText(outcome))
    /\ ops' = Append(ops, "update_call_outcome")
    /\ pc' = "end_call"
    /\ UNCHANGED <<direct, properties, use_openai, now, appointments, raised, client_info, property_id,
                   call_id, property_info, conversation_history, client_response,
                   ai_response, sentiment, outcome, options>>

\* _handle_property_inquiry, lines 307-382: details, client turn, reply, note
PropertyInquiryTalk(a1, reply, a2) ==
    LET script == IF use_openai THEN generate_response(a1)
                  ELSE PropertyDetailsScript(property_info)
        answer == IF use_openai THEN generate_response(a2)
                  ELSE PropertyAiResponse(reply, property_info)
        \* lines 348-356: the client turn is in the history that is passed
        request == RequestMessages(reply,
                       ListOf(conversation_history \o
                              <<Turn("assistant", script), Turn("user", reply)>>),
                       property_info, AgentName, NoneStr)
    IN  /\ pc = "property_inquiry"
        /\ conversation_history' = conversation_history \o
               <<Turn("assistant", script), Turn("user", reply),
                 Turn("assistant", answer)>>
        /\ exchange' = IF use_openai THEN Put(exchange, "messages", request) ELSE exchange
        /\ client_response' = reply
        /\ ai_response' = answer
        /\ calls' = update_call_notes(calls, call_id, NoteText(reply, answer), now)
        /\ ops' = ops \o (IF use_openai THEN <<"generate_response", "generate_response">>
                          ELSE << >>) \o <<"update_call_notes">>
        /\ pc' = "property_finish"
        /\ UNCHANGED <<sessions, properties, use_openai, now, appointments, raised, client_info,
                       property_id, call_id, property_info, sentiment, outcome,
                       options>>

\* _handle_property_inquiry, lines 385-415: the client asked for a viewing
PropertySchedule(today, r) ==
    LET dates == PropertyAvailableDates(today)
        selected_date == dates[1]
        selected_time == PropertyAvailableTimes[2]
        booked == schedule_appointment(appointments, client_info, selected_date,
                                       selected_time, property_info.id, now, r)
    IN  /\ pc = "property_finish"
        /\ client_response = ScheduleViewing
        /\ ops' = ops \o (IF use_openai THEN <<"generate_response">> ELSE << >>)
                      \o <<"schedule_appointment">>
                      \o (IF booked.raised = "None" THEN <<"update_call_outcome">> ELSE << >>)
        /\ IF booked.raised # "None"
           THEN /\ Raise(booked.raised)
                /\ UNCHANGED <<calls, appointments, options>>
           ELSE /\ appointments' = booked.appointments
                /\ calls' = update_call_outcome(calls, call_id, "Appointment scheduled")
                /\ options' = [selected_date |-> selected_date,
                               selected_time |-> selected_time]
                /\ pc' = "end_call"
                /\ UNCHANGED raised
        /\ UNCHANGED <<direct, properties, use_openai, now, client_info, property_id, call_id,
                       property_info, conversation_history, client_response,
                       ai_response, sentiment, outcome>>

\* _handle_property_inquiry, lines 416-417: every other client turn
PropertyRecordOutcome ==
    /\ pc = "property_finish"
    /\ client_response # ScheduleViewing
    /\ calls' = update_call_outcome(calls, call_id, "Information provided")
    /\ ops' = Append(ops, "update_call_outcome")
    /\ pc' = "end_call"
    /\ UNCHANGED <<direct, properties, use_openai, now, appointments, raised, client_info, property_id,
                   call_id, property_info, conversation_history, client_response,
                   ai_response, sentiment, outcome, options>>

\* make_call, lines 156-160: close the record and return the id
EndCall ==
    /\ pc = "end_call"
    /\ calls' = log_call_end(calls, call_id, now)
    /\ ops' = Append(ops, "log_call_end")
    /\ pc' = "returned"
    /\ UNCHANGED <<direct, properties, use_openai, now, appointments, raised, client_info, property_id,
                   call_id, property_info, conversation_history, client_response,
                   ai_response, sentiment, outcome, options>>

\* time passes while a call runs
Tick ==
    /\ pc \in InCall
    /\ now < MaxTime
    /\ now' = now + 1
    /\ UNCHANGED <<direct, properties, use_openai, calls, appointments, pc, raised, client_info,
                   property_id, call_id, property_info, conversation_history,
                   client_response, ai_response, sentiment, outcome, options, ops>>

Next ==
    \/ /\ pc = "idle"
       /\ \E c \in Clients, pid \in PropertyIdArgs, r \in Suffixes : MakeCall(c, pid, r)
    \/ /\ pc = "general_inquiry"
       /\ \E a1 \in BackendAnswers, reply \in GeneralClientResponses,
             a2 \in BackendAnswers : GeneralInquiryTalk(a1, reply, a2)
    \/ GeneralOutcome
    \/ /\ pc = "general_finish"
       /\ \E today \in TodayDates : GeneralSchedule(today)
    \/ GeneralRecordOutcome
    \/ /\ pc = "property_inquiry"
       /\ \E a1 \in BackendAnswers, reply \in PropertyClientResponses,
             a2 \in BackendAnswers : PropertyInquiryTalk(a1, reply, a2)
    \/ /\ pc = "property_finish"
       /\ \E today \in TodayDates, r \in Suffixes : PropertySchedule(today, r)
    \/ PropertyRecordOutcome
    \/ EndCall
    \/ Tick

Spec == Init /\ [][Next]_vars

----------------------------------------------------------------------------
(* CRMIntegration used directly: callers that open calls on one shared     *)
(* ledger and interleave their operations. sessions[p] is the list of the  *)
(* calls caller p has made so far, each with its arguments; ops and        *)
(* call_id hold the name and the call id of the last operation.            *)

\* the instants of the clock at which the callers act, in seconds
LedgerInstants == {0, 75, 3725}

Callers == {1, 2}

\* the arguments the callers pass
LedgerNotes == {"Client: What are the HOA fees?\nAgent: The HOA fees are $450 per month."}
LedgerSentiments == {DefaultSentiment}
LedgerOutcomes == {"Information provided"}

\* the client each caller calls
LedgerClient(p) == CHOOSE c \in Clients : (c.id = "client123") <=> (p = 1)

\* a call id that is passed while no log_call_start has returned it
StrayIds == {CallId(0, RandLow)}

Mutators == {"update_call_notes", "update_client_sentiment",
             "update_call_outcome", "log_call_end"}

\* the id log_call_start returned to the caller whose calls are log
SessionId(log) == CallId(log[1].t, log[1].r)

\* one call of the CRMIntegration API on the ledger cs
Apply(cs, id, call) ==
    CASE call.op = "log_call_start" -> log_call_start(cs, call.client, call.t, call.r)
      [] call.op = "update_call_notes" -> update_call_notes(cs, id, call.note, call.t)
      [] call.op = "update_client_sentiment" -> update_client_sentiment(cs, id, call.sentiment)
      [] call.op = "update_call_outcome" -> update_call_outcome(cs, id, call.outcome)
      [] call.op = "log_call_end" -> log_call_end(cs, id, call.t)

\* the operations a caller makes next, in the order of make_call (lines
\* 141-158): open, note, sentiment when assessed, outcome, close; the close may
\* be repeated once
NextOps(log) ==
    IF log = << >> THEN {"log_call_start"}
    ELSE LET last == log[Len(log)].op
         IN  CASE last = "log_call_start" -> {"update_call_notes"}
               [] last = "update_call_notes" ->
                      {"update_client_sentiment", "update_call_outcome"}
               [] last = "update_client_sentiment" -> {"update_call_outcome"}
               [] last = "update_call_outcome" -> {"log_call_end"}
               [] last = "log_call_end" ->
                      IF log[Len(log) - 1].op = "log_call_end" THEN {}
                      ELSE {"log_call_end"}

LedgerInit ==
    /\ use_openai = FALSE
    /\ now = 0
    /\ calls = << >>
    /\ appointments = << >>
    /\ pc = "ledger"
    /\ raised = "None"
    /\ client_info = NoneValue
    /\ property_id = NoneStr
    /\ call_id = NoneValue
    /\ property_info = NoneValue
    /\ conversation_history = << >>
    /\ client_response = NoneStr
    /\ ai_response = NoneStr
    /\ sentiment = NoneValue
    /\ outcome = NoneStr
    /\ options = NoneValue
    /\ ops = << >>
    /\ sessions = [p \in Callers |-> << >>]
    /\ exchange = NoneValue
    /\ properties = << >>

\* what no operation of the ledger touches
LedgerFrame ==
    UNCHANGED <<properties, use_openai, now, appointments, pc, raised, client_info, property_id,
                property_info, conversation_history, client_response, ai_response,
                sentiment, outcome, options, exchange>>

\* caller p makes the call `call` for the call id `id`
SessionCall(p, id, call) ==
    /\ pc = "ledger"
    /\ call.op \in NextOps(sessions[p])
    /\ calls' = Apply(calls, id, call)
    /\ sessions' = [sessions EXCEPT ![p] = Append(@, call)]
    /\ ops' = <<call.op>>
    /\ call_id' = id
    /\ LedgerFrame

LogCallStart(p, c, r) ==
    SessionCall(p, CallId(now, r),
                [op |-> "log_call_start", client |-> c, t |-> now, r |-> r])

UpdateCallNotes(p, note) ==
    /\ sessions[p] # << >>
    /\ SessionCall(p, SessionId(sessions[p]),
                   [op |-> "update_call_notes", note |-> note, t |-> now])

UpdateClientSentiment(p, s) ==
    /\ sessions[p] # << >>
    /\ SessionCall(p, SessionId(sessions[p]),
                   [op |-> "update_client_sentiment", sentiment |-> s])

UpdateCallOutcome(p, o) ==
    /\ sessions[p] # << >>
    /\ SessionCall(p, SessionId(sessions[p]),
                   [op |-> "update_call_outcome", outcome |-> o])

LogCallEnd(p) ==
    /\ sessions[p] # << >>
    /\ SessionCall(p, SessionId(sessions[p]), [op |-> "log_call_end", t |-> now])

\* a mutator called with a call id that is not in the ledger
StrayCall(op, id) ==
    /\ pc = "ledger"
    /\ id \notin DOMAIN calls
    /\ \E note \in LedgerNotes, s \in LedgerSentiments, o \in LedgerOutcomes :
           calls' = Apply(calls, id, [op |-> op, note |-> note, sentiment |-> s,
                                      outcome |-> o, t |-> now])
    /\ ops' = <<op>>
    /\ call_id' = id
    /\ UNCHANGED sessions
    /\ LedgerFrame

\* the clock moves on to a later instant
Advance(t) ==
    /\ pc = "ledger"
    /\ t > now
    /\ now' = t
    /\ UNCHANGED <<direct, properties, use_openai, calls, appointments, pc, raised, client_info,
                   property_id, call_id, property_info, conversation_history,
                   client_response, ai_response, sentiment, outcome, options, ops>>

LedgerNext ==
    \/ \E p \in Callers, r \in Suffixes : LogCallStart(p, LedgerClient(p), r)
    \/ \E p \in Callers, note \in LedgerNotes : UpdateCallNotes(p, note)
    \/ \E p \in Callers, s \in LedgerSentiments : UpdateClientSentiment(p, s)
    \/ \E p \in Callers, o \in LedgerOutcomes : UpdateCallOutcome(p, o)
    \/ \E p \in Callers : LogCallEnd(p)
    \/ \E op \in Mutators, id \in StrayIds : StrayCall(op, id)
    \/ \E t \in LedgerInstants : Advance(t)

LedgerSpec == LedgerInit /\ [][LedgerNext]_vars

RECURSIVE Replay(_, _)
\* the ledger after the first n calls of log, made on an empty ledger
Replay(log, n) ==
    IF n = 0 THEN << >> ELSE Apply(Replay(log, n - 1), SessionId(log), log[n])

\* the record of caller p's call had the caller run alone
Alone(p) == Replay(sessions[p], Len(sessions[p]))[SessionId(sessions[p])]

----------------------------------------------------------------------------
(* OpenAIIntegration used directly: a caller invokes generate_response and *)
(* analyze_client_sentiment with arguments of its choice. exchange holds   *)
(* the arguments, the message list of the request and the backend's        *)
(* answer; ops holds the name of the last operation.                       *)

\* lines 155-166 and 170-174 of analyze_client_sentiment
SentimentMessages(client_message) ==
    <<Turn("system", "You are an AI assistant that analyzes client messages for real estate agents. Respond in JSON format only."),
      Turn("user", "Analyze this message from a potential real estate client:\n\""
                   \o client_message \o "\"\nProvide a JSON response with the following fields: ...")>>

\* the arguments the caller passes
ProviderMessages ==
    {"Tell me about properties in downtown.", "What are the HOA fees?",
     "I'm interested in the property, but I'm concerned about the price."}
ProviderHistories ==
    {NoneValue, ListOf(<< >>),
     ListOf(<<Turn("assistant", "Hello, this is Sarah from Premier Real Estate."),
              Turn("user", "What are the HOA fees?")>>)}
ProviderProperties ==
    {NoneValue, Properties[2], Properties[3],
     [name |-> "Skyline Apartments", type |-> "Residential", price |-> 500000,
      address |-> "123 Main St, Downtown", features |-> "2 bed, 2 bath, 1000 sq ft"]}
ProviderContexts ==
    {NoneStr, "You are a real estate agent specializing in downtown properties."}

ProviderInit ==
    /\ use_openai = TRUE
    /\ now = 0
    /\ calls = << >>
    /\ appointments = << >>
    /\ pc = "provider"
    /\ raised = "None"
    /\ client_info = NoneValue
    /\ property_id = NoneStr
    /\ call_id = NoneValue
    /\ property_info = NoneValue
    /\ conversation_history = << >>
    /\ client_response = NoneStr
    /\ ai_response = NoneStr
    /\ sentiment = NoneValue
    /\ outcome = NoneStr
    /\ options = NoneValue
    /\ ops = << >>
    /\ sessions = << >>
    /\ exchange = NoneValue
    /\ properties = << >>

\* what no operation of the provider touches
ProviderFrame ==
    UNCHANGED <<properties, use_openai, now, calls, appointments, pc, client_info, property_id,
                call_id, property_info, conversation_history, client_response,
                outcome, options, sessions>>

\* generate_response(client_message, conversation_history, property_info,
\* agent_name, agent_context) while the backend answers `answer`
GenerateResponse(client_message, history, p, agent_context, answer) ==
    /\ pc = "provider"
    /\ exchange' = [client_message |-> client_message,
                    conversation_history |-> history,
                    property_info |-> p,
                    agent_context |-> agent_context,
                    messages |-> RequestMessages(client_message, history, p,
                                                 AgentName, agent_context),
                    answer |-> answer]
    /\ ai_response' = generate_response(answer)
    /\ raised' = "None"
    /\ ops' = <<"generate_response">>
    /\ UNCHANGED sentiment
    /\ ProviderFrame

\* analyze_client_sentiment(client_message) while the backend answers `answer`
AnalyzeClientSentiment(client_message, answer) ==
    /\ pc = "provider"
    /\ exchange' = [client_message |-> client_message,
                    messages |-> SentimentMessages(client_message),
                    answer |-> answer]
    /\ sentiment' = analyze_client_sentiment(answer)
    /\ raised' = "None"
    /\ ops' = <<"analyze_client_sentiment">>
    /\ UNCHANGED ai_response
    /\ ProviderFrame

ProviderNext ==
    \/ \E m \in ProviderMessages, h \in ProviderHistories, p \in ProviderProperties,
          c \in ProviderContexts, a \in BackendAnswers :
           GenerateResponse(m, h, p, c, a)
    \/ \E m \in ProviderMessages, a \in AnalysisAnswers : AnalyzeClientSentiment(m, a)

ProviderSpec == ProviderInit /\ [][ProviderNext]_vars

----------------------------------------------------------------------------
(* Construction of the agent: __init__ loads the catalog, then tries the   *)
(* provider. exchange.descriptions holds what the backend answers to the   *)
(* description request for each record, exchange.loaded what a call of     *)
(* _load_properties on the constructed agent returned.                     *)

ConstructInit ==
    /\ use_openai = FALSE
    /\ now = 0
    /\ calls = << >>
    /\ appointments = << >>
    /\ pc = "new"
    /\ raised = "None"
    /\ client_info = NoneValue
    /\ property_id = NoneStr
    /\ call_id = NoneValue
    /\ property_info = NoneValue
    /\ conversation_history = << >>
    /\ client_response = NoneStr
    /\ ai_response = NoneStr
    /\ sentiment = NoneValue
    /\ outcome = NoneStr
    /\ options = NoneValue
    /\ ops = << >>
    /\ sessions = << >>
    /\ \E a \in DescriptionAnswerLists :
           exchange = [descriptions |-> a, loaded |-> << >>]
    /\ properties = << >>

\* RealEstateVoiceAgent.__init__, lines 9-29: the catalog is loaded (line 12)
\* before the provider is constructed (lines 17-24)
Construct(api_key, env_key) ==
    /\ pc = "new"
    /\ properties' = load_properties(ConstructionAttrs, FALSE, exchange.descriptions)
    /\ use_openai' = AgentUseOpenAI(api_key, env_key)
    /\ pc' = "idle"
    /\ UNCHANGED <<direct, now, calls, appointments, raised, client_info, property_id,
                   call_id, property_info, conversation_history, client_response,
                   ai_response, sentiment, outcome, options, ops>>

\* _load_properties called on the constructed agent; its result is returned
LoadProperties ==
    /\ pc = "idle"
    /\ exchange' = [exchange EXCEPT
                       !.loaded = load_properties(AgentAttrs(use_openai), use_openai,
                                                  exchange.descriptions)]
    /\ UNCHANGED <<sessions, properties, use_openai, now, calls, appointments, pc,
                   raised, client_info, property_id, call_id, property_info,
                   conversation_history, client_response, ai_response, sentiment,
                   outcome, options, ops>>

\* the ids of the catalog
CatalogIds == {Properties[i].id : i \in DOMAIN Properties}

\* construction, then a call about a property of the catalog
ConstructNext ==
    \/ \E k \in ApiKeyArgs, e \in EnvKeys : Construct(k, e)
    \/ LoadProperties
    \/ /\ pc = "idle"
       /\ \E c \in Clients, pid \in PropertyIdArgs \cap CatalogIds, r \in Suffixes :
              MakeCall(c, pid, r)
    \/ /\ pc = "property_inquiry"
       /\ \E a1 \in BackendAnswers, reply \in PropertyClientResponses,
             a2 \in BackendAnswers : PropertyInquiryTalk(a1, reply, a2)
    \/ /\ pc = "property_finish"
       /\ \E today \in TodayDates, r \in Suffixes : PropertySchedule(today, r)
    \/ PropertyRecordOutcome
    \/ EndCall
    \/ Tick

ConstructSpec == ConstructInit /\ [][ConstructNext]_vars

----------------------------------------------------------------------------
(* The appointment slots: the candidate dates, the two offered options and *)
(* the slot handed to the ledger, run on every value of today's date, for  *)
(* both flows of both agent modules.                                       *)

Modules == {"voice_agent", "voice_agent_with_openai"}

\* voice_agent.py, _handle_property_inquiry, lines 287-290: two candidates,
\* the second by datetime.replace
TemplatePropertyDates(today) ==
    LET d1 == ReplaceDay(today, today.day + 1)
    IN  IF d1.raised # "None" THEN [raised |-> d1.raised, value |-> <<>>]
        ELSE [raised |-> "None",
              value |-> <<StrftimeDate(today), StrftimeDate(d1.value)>>]

\* the candidate dates of a flow of a module
AvailableDates(module, flow, today) ==
    IF flow = "general" THEN GeneralAvailableDates(today)
    ELSE IF module = "voice_agent" THEN TemplatePropertyDates(today)
    ELSE [raised |-> "None", value |-> PropertyAvailableDates(today)]

\* a variant that filters nothing out
Remaining_All(list, x) == list

\* [d for d in available_dates if d != date_option_1]
Remaining(list, x) == SelectSeq(list, LAMBDA e : e # x)

\* the first day from today on that is a Friday
UpcomingFriday(today) ==
    AddDays(today, CHOOSE k \in 0..6 :
                       /\ Weekday(AddDays(today, k)) = "Friday"
                       /\ \A j \in 0..(k - 1) : Weekday(AddDays(today, j)) # "Friday")

\* the two slots the reply to "I'd like to schedule a viewing." names:
\* "We have availability tomorrow at 2:00 PM or Friday at 10:00 AM."
PropertyOffered(today) ==
    << [date |-> StrftimeDate(AddDays(today, 1)), time |-> "2:00 PM"],
       [date |-> StrftimeDate(UpcomingFriday(today)), time |-> "10:00 AM"] >>

SlotInit ==
    /\ use_openai = FALSE
    /\ now = 0
    /\ calls = << >>
    /\ appointments = << >>
    /\ pc = "slot"
    /\ raised = "None"
    /\ client_info \in Clients
    /\ property_id = NoneStr
    /\ call_id = NoneValue
    /\ property_info = NoneValue
    /\ conversation_history = << >>
    /\ client_response = NoneStr
    /\ ai_response = NoneStr
    /\ sentiment = NoneValue
    /\ outcome = NoneStr
    /\ options = NoneValue
    /\ ops = << >>
    /\ sessions = << >>
    /\ \E m \in Modules, f \in {"general", "property"}, d \in TodayDates :
           exchange = [module |-> m, flow |-> f, today |-> d,
                       dates |-> NoneValue, passed |-> NoneValue]
    /\ properties = << >>

SlotFrame ==
    UNCHANGED <<use_openai, now, calls, client_info, property_id, call_id,
                property_info, conversation_history, client_response,
                ai_response, sentiment, outcome, ops, sessions, properties>>

\* _handle_general_inquiry, lines 268-280 (voice_agent.py 212-224): the
\* candidates, then two random options; random.choice of an empty list raises
OfferGeneral ==
    LET dates == AvailableDates(exchange.module, "general", exchange.today)
        times == GeneralAvailableTimes
    IN  /\ pc = "slot"
        /\ exchange.flow = "general"
        /\ exchange' = [exchange EXCEPT !.dates = dates]
        /\ IF dates.raised # "None"
           THEN Raise(dates.raised) /\ UNCHANGED options
           ELSE \E d1 \in Range(dates.value), t1 \in Range(times) :
                    IF Remaining(dates.value, d1) = << >> \/ Remaining(times, t1) = << >>
                    THEN Raise("IndexError") /\ UNCHANGED options
                    ELSE \E d2 \in Range(Remaining(dates.value, d1)),
                            t2 \in Range(Remaining(times, t1)) :
                             /\ options' = [available_dates |-> dates.value,
                                            available_times |-> times,
                                            offered |-> <<[date |-> d1, time |-> t1],
                                                          [date |-> d2, time |-> t2]>>,
                                            selected_date |-> d1,
                                            selected_time |-> t1]
                             /\ pc' = "offered"
                             /\ UNCHANGED raised
        /\ UNCHANGED appointments
        /\ SlotFrame

\* _handle_property_inquiry, lines 385-396 (voice_agent.py 286-295), after the
\* canned reply of line 371 named two slots
OfferProperty ==
    LET dates == AvailableDates(exchange.module, "property", exchange.today)
    IN  /\ pc = "slot"
        /\ exchange.flow = "property"
        /\ exchange' = [exchange EXCEPT !.dates = dates]
        /\ IF dates.raised # "None"
           THEN Raise(dates.raised) /\ UNCHANGED options
           ELSE /\ options' = [available_dates |-> dates.value,
                               available_times |-> PropertyAvailableTimes,
                               offered |-> PropertyOffered(exchange.today),
                               selected_date |-> dates.value[1],
                               selected_time |-> PropertyAvailableTimes[2]]
                /\ pc' = "offered"
                /\ UNCHANGED raised
        /\ UNCHANGED appointments
        /\ SlotFrame

\* lines 302 and 414: the selected slot goes to the ledger
BookSlot(r) ==
    LET pid == IF exchange.flow = "property" THEN "prop001" ELSE NoneStr
        booked == schedule_appointment(appointments, client_info, options.selected_date,
                                       options.selected_time, pid, now, r)
    IN  /\ pc = "offered"
        /\ exchange' = [exchange EXCEPT !.passed = [date |-> options.selected_date,
                                                    time |-> options.selected_time]]
        /\ IF booked.raised # "None"
           THEN Raise(booked.raised) /\ UNCHANGED appointments
           ELSE /\ appointments' = booked.appointments
                /\ pc' = "booked"
                /\ UNCHANGED raised
        /\ UNCHANGED options
        /\ SlotFrame

SlotNext ==
    \/ OfferGeneral
    \/ OfferProperty
    \/ \E r \in Suffixes : BookSlot(r)

SlotSpec == SlotInit /\ [][SlotNext]_vars

----------------------------------------------------------------------------
(* The read accessors of the ledger, called between the operations of two  *)
(* callers. The list a filtered get_call_history returns is a bag of       *)
(* records; without a client id the accessor returns the ledger's own      *)
(* container.                                                              *)

\* a variant whose filter lets the records of every client through
get_call_history_All(cs, client_id) ==
    IF Truthy(client_id)
    THEN [rec \in {cs[id] : id \in DOMAIN cs} |->
              Cardinality({id \in DOMAIN cs : cs[id] = rec})]
    ELSE cs

\* CRMIntegration.get_call_history
get_call_history(cs, client_id) ==
    IF Truthy(client_id)
    THEN LET ids == {id \in DOMAIN cs : Get(cs[id].client, "id", NoneStr) = client_id}
         IN  [rec \in {cs[id] : id \in ids} |-> Cardinality({id \in ids : cs[id] = rec})]
    ELSE cs

\* CRMIntegration.get_appointments
get_appointments(apps, client_id) ==
    IF Truthy(client_id)
    THEN SelectSeq(apps, LAMBDA apt : Get(apt.client, "id", NoneStr) = client_id)
    ELSE apps

\* the clients the callers call: two with an id, one without
ReaderClients == Clients \cup {[name |-> "Walk In", phone |-> "(555) 000-0000"]}

\* the client_id arguments: the ids of the clients, an id of nobody, None
ClientIdArgs == {"client123", "test_client_001", "client999", NoneStr}

GetCallHistory(client_id) ==
    /\ pc = "ledger"
    /\ exchange' = [op |-> "get_call_history", client_id |-> client_id,
                    result |-> get_call_history(calls, client_id)]
    /\ ops' = <<"get_call_history">>
    /\ UNCHANGED <<calls, call_id, sessions>>
    /\ UNCHANGED <<properties, use_openai, now, appointments, pc, raised, client_info,
                   property_id, property_info, conversation_history, client_response,
                   ai_response, sentiment, outcome, options>>

GetAppointments(client_id) ==
    /\ pc = "ledger"
    /\ exchange' = [op |-> "get_appointments", client_id |-> client_id,
                    result |-> get_appointments(appointments, client_id)]
    /\ ops' = <<"get_appointments">>
    /\ UNCHANGED <<calls, call_id, sessions>>
    /\ UNCHANGED <<properties, use_openai, now, appointments, pc, raised, client_info,
                   property_id, property_info, conversation_history, client_response,
                   ai_response, sentiment, outcome, options>>

\* the caller drops the value an accessor returned
DropResult ==
    /\ pc = "ledger"
    /\ exchange # NoneValue
    /\ exchange' = NoneValue
    /\ UNCHANGED <<calls, call_id, sessions, ops>>
    /\ UNCHANGED <<properties, use_openai, now, appointments, pc, raised, client_info,
                   property_id, property_info, conversation_history, client_response,
                   ai_response, sentiment, outcome, options>>

\* the operations of the callers, a read between any two of them
ReaderNext ==
    \/ /\ exchange = NoneValue
       /\ \E p \in Callers, c \in ReaderClients, r \in Suffixes : LogCallStart(p, c, r)
    \/ /\ exchange = NoneValue
       /\ \E p \in Callers, note \in LedgerNotes : UpdateCallNotes(p, note)
    \/ /\ exchange = NoneValue
       /\ \E p \in Callers, s \in LedgerSentiments : UpdateClientSentiment(p, s)
    \/ /\ exchange = NoneValue
       /\ \E p \in Callers, o \in LedgerOutcomes : UpdateCallOutcome(p, o)
    \/ /\ exchange = NoneValue
       /\ \E p \in Callers : LogCallEnd(p)
    \/ /\ exchange = NoneValue
       /\ \E c \in ClientIdArgs : GetCallHistory(c)
    \/ /\ exchange = NoneValue
       /\ \E c \in ClientIdArgs : GetAppointments(c)
    \/ DropResult

ReaderSpec == LedgerInit /\ [][ReaderNext]_vars

----------------------------------------------------------------------------
(* Vocabulary of the properties *)

Finished == pc \in {"returned", "raised"}
Started == pc # "idle"
GeneralFlow == Started /\ property_info = NoneValue
PropertyFlow == Started /\ property_info # NoneValue
Record == calls[call_id]

Count(seq, x) == Cardinality({i \in DOMAIN seq : seq[i] = x})
Index(seq, x) == CHOOSE i \in DOMAIN seq : seq[i] = x
Before(seq, x, y) == x \in Range(seq) /\ y \in Range(seq) /\ Index(seq, x) < Index(seq, y)

\* the member of the closed set an outcome text denotes: the text in lower
\* case, blanks written as underscores
Denoted(text) == ReplaceChar(Lower(text), " ", "_")

\* the outcome the flow decided: the local of the general flow, the client
\* turn in the property flow
Decided ==
    IF PropertyFlow
    THEN (IF client_response = ScheduleViewing THEN "appointment_scheduled"
          ELSE "information_provided")
    ELSE outcome

----------------------------------------------------------------------------
(* C1: every call opened by make_call reaches Closed: make_call returns     *)
(* normally and the record it opened has status completed, whatever the    *)
(* client, the property id, the flow, the client reply, the outcome,       *)
(* today's date and the backend do. Stated on the finished call.           *)
C1_EveryCallCloses ==
    Finished => raised = "None" /\ Record.status = "completed"

(* C2: Scenario C: a PropertyFlow call whose client reply is "I'd like to  *)
(* schedule a viewing." ends with an appointment carrying the resolved     *)
(* property's id in the ledger and the outcome "Appointment scheduled".    *)
C2_ScenarioC ==
    (Finished /\ PropertyFlow /\ client_response = ScheduleViewing) =>
        /\ \E i \in DOMAIN appointments :
               appointments[i].property_id = property_info.id
        /\ Record.outcome = "Appointment scheduled"

(* C3: for every call record, end timestamp and duration are both present  *)
(* if and only if the status is completed; an in-progress record has       *)
(* neither.                                                                *)
C3_EndAndDurationIffCompleted ==
    \A id \in DOMAIN calls :
        /\ calls[id].status \in {"in-progress", "completed"}
        /\ ("end_time" \in DOMAIN calls[id]) <=> (calls[id].status = "completed")
        /\ ("duration" \in DOMAIN calls[id]) <=> (calls[id].status = "completed")

C3_Witness ==
    /\ pc = "returned"
    /\ Record.status = "completed"
    /\ "end_time" \in DOMAIN Record
    /\ "duration" \in DOMAIN Record

C5_OutcomeFromInterestLevel ==
    (/\ "analyze_client_sentiment" \in Range(ops)
     /\ sentiment.shape = "dict"
     /\ "interest_level" \in DOMAIN sentiment
     /\ sentiment.interest_level \in InterestLevels) =>
        /\ sentiment.interest_level = "high" => outcome = "appointment_scheduled"
        /\ sentiment.interest_level = "medium" => outcome = "information_provided"
        /\ sentiment.interest_level = "low" => outcome = "follow_up_required"

C5_Witness ==
    /\ pc = "returned"
    /\ sentiment \in WellFormedAnalyses
    /\ sentiment.interest_level = "low"
    /\ sentiment.sentiment = "positive"
    /\ outcome = "follow_up_required"

(* C6: not_interested is never produced on the sentiment path: a call      *)
(* record that carries a non-null sentiment assessment, whatever           *)
(* structure the backend returned, never has the outcome Not Interested.   *)
C6_NeverNotInterested ==
    \A id \in DOMAIN calls :
        calls[id].sentiment # NoneValue => calls[id].outcome # "Not Interested"

(* C7, as claimed: in every call run under the generative variant, in      *)
(* either flow, assess_sentiment is invoked, its result is stored on the   *)
(* record before the call closes, and the outcome is decided from it; the  *)
(* weighted-random path is used only when the capability is absent.        *)
C7_SentimentInBothFlows ==
    (use_openai /\ pc = "returned") =>
        /\ "analyze_client_sentiment" \in Range(ops)
        /\ Before(ops, "update_client_sentiment", "log_call_end")
        /\ Record.sentiment = sentiment
        /\ "random.choices" \notin Range(ops)

(* C7, amended: in every GeneralFlow call run under the generative variant *)
(* assess_sentiment is invoked and its result is stored on the record      *)
(* before the outcome is decided and before the call closes; the outcome   *)
(* is decided from the assessment when its interest_level can be read, and *)
(* drawn from the weighted distribution when reading it raises or when the *)
(* capability is absent. A PropertyFlow call assesses no sentiment under   *)
(* either variant and its record's sentiment stays absent.                 *)
C7_SentimentInGeneralFlow ==
    /\ (use_openai /\ GeneralFlow /\ pc \in {"general_finish", "end_call", "returned", "raised"}) =>
           /\ Count(ops, "analyze_client_sentiment") = 1
           /\ Count(ops, "update_client_sentiment") = 1
           /\ Record.sentiment = sentiment
           /\ ("random.choices" \in Range(ops)) <=> (InterestLevelOf(sentiment).raised # "None")
           /\ "update_call_outcome" \in Range(ops) =>
                  Before(ops, "update_client_sentiment", "update_call_outcome")
           /\ "log_call_end" \in Range(ops) =>
                  Before(ops, "update_client_sentiment", "log_call_end")
    /\ (~use_openai /\ GeneralFlow /\ pc \in {"general_finish", "end_call", "returned", "raised"}) =>
           /\ "random.choices" \in Range(ops)
           /\ "analyze_client_sentiment" \notin Range(ops)
    /\ PropertyFlow =>
           /\ "analyze_client_sentiment" \notin Range(ops)
           /\ "random.choices" \notin Range(ops)
           /\ Record.sentiment = NoneValue

C7_Witness ==
    /\ pc = "returned"
    /\ use_openai
    /\ GeneralFlow
    /\ Record.sentiment \in WellFormedAnalyses
    /\ Record.sentiment.interest_level = "medium"
    /\ Record.outcome = "Information Provided"

(* C8: on the absent-sentiment path (template variant, GeneralFlow) the    *)
(* outcome recorded on the call record is one of the four valid outcomes,  *)
(* each of the four drawn outcomes is the recorded outcome of the call     *)
(* that drew it, and the four weights sum to 1 (100 hundredths).           *)
C8_DrawnOutcomeRecorded ==
    /\ SumTo(weights, Len(weights)) = 100
    /\ (~use_openai /\ GeneralFlow /\ Finished) =>
           /\ Record.outcome # NoneStr
           /\ Denoted(Record.outcome) \in Range(outcomes)
           /\ Denoted(Record.outcome) = outcome

(* C9: a call writes an appointment record only if its outcome is          *)
(* appointment_scheduled, a call whose outcome is appointment_scheduled    *)
(* writes exactly one appointment record for its own client, and a call    *)
(* with any other outcome leaves the appointment list unchanged.           *)
C9_AppointmentIffScheduled ==
    Finished =>
        LET mine == {i \in DOMAIN appointments : appointments[i].client = client_info}
        IN  /\ Decided = "appointment_scheduled" =>
                   Cardinality(mine) = 1 /\ Len(appointments) = 1
            /\ Decided # "appointment_scheduled" => appointments = << >>

C11_FlowSelection ==
    /\ Started =>
           (PropertyFlow <=>
               /\ Truthy(property_id)
               /\ \E i \in DOMAIN Properties : Properties[i].id = property_id)
    /\ (Finished /\ GeneralFlow) =>
           /\ raised = "None"
           /\ call_id \in DOMAIN calls
           /\ Len(Record.notes) >= 1
           /\ Record.outcome # NoneStr
           /\ Record.status = "completed"

----------------------------------------------------------------------------
(* Vocabulary of the ledger properties *)

Opened(p) == sessions[p] # << >>
LastCall(p) == sessions[p][Len(sessions[p])]
\* no other caller holds the call id of caller p
OwnId(p) ==
    \A q \in Callers \ {p} :
        Opened(q) => SessionId(sessions[q]) # SessionId(sessions[p])

\* the position of the first colon of s
ColonAt(s) ==
    CHOOSE k \in 1..Len(s) :
        Char(s, k) = ":" /\ \A j \in 1..(k - 1) : Char(s, j) # ":"

RECURSIVE ParseNat(_)
\* the number a text of decimal digits denotes
ParseNat(s) ==
    IF Len(s) = 0 THEN 0
    ELSE 10 * ParseNat(SubSeq(s, 1, Len(s) - 1)) + DigitValue(Char(s, Len(s)))

(* C12: a ledger mutator (update_call_notes, update_client_sentiment,      *)
(* update_call_outcome, log_call_end) called with a call id that is not in *)
(* the ledger raises nothing and leaves the whole ledger unchanged: no     *)
(* record is created or modified and the appointment list is unchanged.    *)
C12_UnknownIdIgnored ==
    [][(/\ pc = "ledger"
        /\ ops' # << >>
        /\ ops'[1] \in Mutators
        /\ call_id' \notin DOMAIN calls) =>
           /\ calls' = calls
           /\ appointments' = appointments
           /\ raised' = "None"]_vars

C12_Witness ==
    /\ pc = "ledger"
    /\ ops = <<"update_client_sentiment">>
    /\ call_id \notin DOMAIN calls
    /\ \E id \in DOMAIN calls : calls[id].status = "in-progress"

(* C13: call ids are generated without collision: two callers that opened  *)
(* a call never hold the same call id, also when both opened within the    *)
(* same clock second, so the ledger holds one record per opened call.      *)
C13_IdsNeverCollide ==
    pc = "ledger" =>
        /\ \A p \in Callers : Opened(p) => OwnId(p)
        /\ Cardinality(DOMAIN calls) = Cardinality({p \in Callers : Opened(p)})

(* C14: for calls open at the same time on one ledger under distinct ids,  *)
(* under every interleaving of their note, sentiment, outcome and close    *)
(* operations, each call's record equals the record the same operations    *)
(* give when the call runs alone on an empty ledger; so no operation on    *)
(* one call id changes the record of another.                              *)
C14_CallsIndependent ==
    pc = "ledger" =>
        \A p \in Callers :
            (Opened(p) /\ OwnId(p)) =>
                /\ SessionId(sessions[p]) \in DOMAIN calls
                /\ calls[SessionId(sessions[p])] = Alone(p)

C14_Witness ==
    /\ pc = "ledger"
    /\ Opened(1) /\ Opened(2) /\ OwnId(1)
    /\ LastCall(1).op = "log_call_end"
    /\ LastCall(2).op = "log_call_end"
    /\ sessions[1][1].t < sessions[2][1].t
    /\ sessions[2][1].t < sessions[1][2].t
    /\ LastCall(1).t <= LastCall(2).t
    /\ calls[SessionId(sessions[1])].sentiment = NoneValue
    /\ calls[SessionId(sessions[2])].sentiment = DefaultSentiment

(* C15: for every closed call record, with d the end timestamp minus the   *)
(* start timestamp in whole seconds (d >= 0), the duration is d div 60     *)
(* written in decimal without an hours part, a colon, and d mod 60 written *)
(* with exactly two digits; and d is the time that passed on the clock     *)
(* between the open and the last close.                                    *)
C15_DurationFormat ==
    /\ \A id \in DOMAIN calls :
           calls[id].status = "completed" =>
               LET d == Strptime(calls[id].end_time) - Strptime(calls[id].start_time)
                   dur == calls[id].duration
                   k == ColonAt(dur)
                   mins == SubSeq(dur, 1, k - 1)
                   secs == SubSeq(dur, k + 1, Len(dur))
               IN  d >= 0 =>
                       /\ Len(secs) = 2
                       /\ mins = ToString(d \div 60)
                       /\ ParseNat(secs) = d % 60
                       /\ 60 * ParseNat(mins) + ParseNat(secs) = d
    /\ pc = "ledger" =>
           \A p \in Callers :
               (Opened(p) /\ OwnId(p) /\ LastCall(p).op = "log_call_end") =>
                   Strptime(calls[SessionId(sessions[p])].end_time)
                       - Strptime(calls[SessionId(sessions[p])].start_time)
                   = LastCall(p).t - sessions[p][1].t

C15_Witness ==
    /\ pc = "ledger"
    /\ \E id \in DOMAIN calls :
           calls[id].status = "completed" /\ calls[id].duration = "62:05"
    /\ \E id \in DOMAIN calls :
           calls[id].status = "completed" /\ calls[id].duration = "0:00"

(* C16: log_call_end on a call id whose record is already completed        *)
(* overwrites the end timestamp with the current clock and recomputes the  *)
(* duration from the unchanged start timestamp: when the clock (in whole   *)
(* seconds) has advanced since the first close, end timestamp and duration *)
(* both differ from their earlier values, while client, start timestamp,   *)
(* status, outcome, notes and sentiment are unchanged.                     *)
C16_SecondCloseOverwrites ==
    [][(/\ pc = "ledger"
        /\ sessions' # sessions
        /\ ops' = <<"log_call_end">>
        /\ call_id' \in DOMAIN calls
        /\ calls[call_id'].status = "completed") =>
           LET a == calls[call_id']
               b == calls'[call_id']
           IN  /\ DOMAIN calls' = DOMAIN calls
               /\ b.end_time = Strftime(now)
               /\ b.duration = FormatDuration(Strptime(b.end_time) - Strptime(a.start_time))
               /\ b.client = a.client
               /\ b.start_time = a.start_time
               /\ b.status = "completed"
               /\ b.outcome = a.outcome
               /\ b.notes = a.notes
               /\ b.sentiment = a.sentiment
               /\ (Strptime(a.end_time) < now) =>
                      (b.end_time # a.end_time /\ b.duration # a.duration)
               /\ (Strptime(a.end_time) = now) => b = a]_vars

C16_Witness ==
    /\ pc = "ledger"
    /\ \E p \in Callers :
           /\ Len(sessions[p]) >= 2
           /\ OwnId(p)
           /\ LastCall(p).op = "log_call_end"
           /\ sessions[p][Len(sessions[p]) - 1].op = "log_call_end"
           /\ sessions[p][Len(sessions[p]) - 1].t < LastCall(p).t
           /\ calls[SessionId(sessions[p])].end_time = Strftime(LastCall(p).t)
           /\ calls[SessionId(sessions[p])].duration
                  = FormatDuration(LastCall(p).t - sessions[p][1].t)
           /\ calls[SessionId(sessions[p])].duration
                  # FormatDuration(sessions[p][Len(sessions[p]) - 1].t - sessions[p][1].t)

----------------------------------------------------------------------------
(* Vocabulary of the provider properties *)

AssessmentFields ==
    {"sentiment", "interest_level", "key_concerns", "preferences", "next_action"}

\* a well-formed SentimentAssessment
WellFormedAssessment(s) ==
    /\ s.shape = "dict"
    /\ AssessmentFields \subseteq DOMAIN s
    /\ s.sentiment \in Sentiments
    /\ s.interest_level \in InterestLevels

(* C17: generate_response, with and without a conversation history, a      *)
(* property and an agent context, returns exactly the fixed apology text   *)
(* whenever the backend call fails, and the backend's text otherwise; no   *)
(* exception reaches its caller, which goes on with the value returned.    *)
C17_ApologyOnFailure ==
    (pc = "provider" /\ ops = <<"generate_response">>) =>
        /\ raised = "None"
        /\ exchange.answer \notin BackendTexts =>
               ai_response = "I apologize, but I'm having trouble generating a response right now. Let me connect you with a human agent who can assist you further."
        /\ exchange.answer \in BackendTexts => ai_response = exchange.answer

C17_Witness ==
    /\ pc = "provider"
    /\ ops = <<"generate_response">>
    /\ exchange.answer = "<backend error>"
    /\ NonEmpty(exchange.conversation_history)
    /\ NonEmpty(exchange.property_info)
    /\ Truthy(exchange.agent_context)
    /\ Len(exchange.messages) = 4
    /\ ai_response = Apology

(* C18: analyze_client_sentiment, when the backend call fails or returns   *)
(* text that cannot be parsed, returns exactly the default assessment:     *)
(* sentiment neutral, interest_level medium, empty key_concerns, empty     *)
(* preferences, next_action ask_follow_up_questions; it never raises.      *)
C18_DefaultOnFailure ==
    (pc = "provider" /\ ops = <<"analyze_client_sentiment">>) =>
        /\ raised = "None"
        /\ exchange.answer \in FailedAnalyses =>
               /\ sentiment.shape = "dict"
               /\ DOMAIN sentiment = AssessmentFields \cup {"shape"}
               /\ sentiment.sentiment = "neutral"
               /\ sentiment.interest_level = "medium"
               /\ sentiment.key_concerns = << >>
               /\ sentiment.preferences = << >>
               /\ sentiment.next_action = "ask_follow_up_questions"

C18_Witness ==
    /\ pc = "provider"
    /\ ops = <<"analyze_client_sentiment">>
    /\ exchange.answer = [shape |-> "not json"]
    /\ sentiment = DefaultSentiment
    /\ WellFormedAssessment(sentiment)

(* C19: every value analyze_client_sentiment returns to the call session   *)
(* is a well-formed SentimentAssessment (all five fields, sentiment and    *)
(* interest_level within their enumerations); a backend answer that parses *)
(* but is malformed is replaced by the default assessment, so it reaches   *)
(* neither the session nor the call record.                                *)
C19_AssessmentWellFormed ==
    /\ ("analyze_client_sentiment" \in Range(ops) /\ pc # "provider") =>
           WellFormedAssessment(sentiment)
    /\ \A id \in DOMAIN calls :
           calls[id].sentiment # NoneValue => WellFormedAssessment(calls[id].sentiment)

(* C20: constructing the provider with no credential (no key argument or   *)
(* an empty one, no key in the environment) fails at construction and the  *)
(* agent is constructed in template mode; in every later call of that      *)
(* agent neither generate_response nor analyze_client_sentiment is invoked *)
(* and the call still completes.                                           *)
C20_NoCredentialTemplateMode ==
    /\ \A k \in {NoneStr, ""} :
           OpenAIInit(k, NoneStr) = "ValueError" /\ ~AgentUseOpenAI(k, NoneStr)
    /\ ~use_openai =>
           /\ "generate_response" \notin Range(ops)
           /\ "analyze_client_sentiment" \notin Range(ops)
           /\ Finished => (raised = "None" /\ Record.status = "completed")

(* C21: when the agent is constructed with the provider available and the  *)
(* description requests succeed with a non-empty text, every catalog       *)
(* record's description after construction is the generated one, and that  *)
(* is the description of the property a PropertyFlow call talks about.     *)
C21_CatalogEnriched ==
    (/\ pc \notin {"new", "ledger", "provider"}
     /\ "descriptions" \in DOMAIN exchange
     /\ use_openai
     /\ \A i \in DOMAIN exchange.descriptions :
            exchange.descriptions[i] \in DescriptionTexts \ {""}) =>
        /\ \A i \in DOMAIN properties :
               properties[i].description = exchange.descriptions[i]
        /\ PropertyFlow =>
               \E i \in DOMAIN properties :
                   /\ properties[i].id = property_info.id
                   /\ property_info.description = exchange.descriptions[i]

(* C22: when the description request for a record fails at the backend,    *)
(* loading does not abort and the record's description after loading is    *)
(* its original description, not a placeholder or an error text: in the    *)
(* catalog the constructor loaded and in the list any later load returns.  *)
C22_OriginalKeptOnFailure ==
    (pc \notin {"new", "ledger", "provider"} /\ "descriptions" \in DOMAIN exchange) =>
        \A i \in DOMAIN exchange.descriptions :
            exchange.descriptions[i] \notin DescriptionTexts =>
                /\ properties[i].description = Properties[i].description
                /\ exchange.loaded # << >> =>
                       exchange.loaded[i].description = Properties[i].description

----------------------------------------------------------------------------
(* Vocabulary of the dialogue properties *)

\* the flow handler has written its note
Talked == pc \in {"general_outcome", "general_finish", "property_finish",
                  "end_call", "returned", "raised"}

\* sub occurs in s
Contains(s, sub) ==
    \E i \in 1..(Len(s) - Len(sub) + 1) : SubSeq(s, i, i + Len(sub) - 1) = sub

(* C23: Scenario A: in the GeneralFlow under the template strategy the     *)
(* agent reply is exactly the text mapped to the client's phrasing: for    *)
(* "What kind of properties do you have in that area?" the reply listing   *)
(* condos, apartments and townhouses; for an input that is none of the     *)
(* four phrasings it is the default fallback text; and the note written to *)
(* the ledger is "Client: <client reply>\nAgent: <that agent reply>".      *)
C23_TemplateReply ==
    /\ GeneralAiResponse("Do you have anything with a pool?")
           = "I understand. Let me find some properties that would match your needs."
    /\ (~use_openai /\ GeneralFlow /\ Talked) =>
           /\ client_response \in GeneralClientResponses
           /\ client_response = "What kind of properties do you have in that area?" =>
                  ai_response = "In the downtown area, we have a mix of modern condos, luxury apartments, and a few townhouses. Our most popular listing is a two-bedroom condo with an open floor plan and city views, priced at $650,000. We also have a three-bedroom townhouse with a rooftop terrace for $875,000."
           /\ client_response = "I'm specifically looking for something with a garage." =>
                  Contains(ai_response, "We do have several properties with garage parking.")
           /\ client_response = "I'm not sure if I'm ready to view properties just yet." =>
                  Contains(ai_response, "I completely understand.")
           /\ client_response = "Yes, I'd like to hear more about the properties you have." =>
                  Contains(ai_response, "Great! We have several properties that might interest you.")
           /\ Len(Record.notes) = 1
           /\ Record.notes[1].content
                  = "Client: " \o client_response \o "\nAgent: " \o ai_response

C23_Witness ==
    /\ pc = "returned"
    /\ ~use_openai
    /\ GeneralFlow
    /\ client_response = "What kind of properties do you have in that area?"
    /\ Contains(Record.notes[1].content, "Agent: In the downtown area, we have a mix of modern condos")

(* C24: Scenario B: in the PropertyFlow under the template strategy, for   *)
(* the client reply "What are the HOA fees?" the agent reply states "$450  *)
(* per month" for a Residential property and that the fees are not         *)
(* applicable for a Commercial one; every PropertyFlow call whose client   *)
(* reply is not the schedule-a-viewing phrase raises nothing, ends with    *)
(* the outcome information_provided and writes no appointment.             *)
C24_ScenarioB ==
    /\ (~use_openai /\ PropertyFlow /\ Talked /\ client_response = "What are the HOA fees?") =>
           /\ property_info.type = "Residential" =>
                  (/\ Contains(ai_response, "$450 per month")
                   /\ ~Contains(ai_response, "not applicable"))
           /\ property_info.type = "Commercial" =>
                  (/\ Contains(ai_response, "not applicable")
                   /\ ~Contains(ai_response, "$450 per month"))
    /\ (PropertyFlow /\ Talked /\ client_response # ScheduleViewing) =>
           /\ pc # "raised"
           /\ appointments = << >>
           /\ "schedule_appointment" \notin Range(ops)
           /\ pc \in {"end_call", "returned"} =>
                  (/\ Record.outcome = "Information provided"
                   /\ Denoted(Record.outcome) = "information_provided")

C24_Witness ==
    /\ pc = "returned"
    /\ ~use_openai
    /\ PropertyFlow
    /\ property_info.price = 650000
    /\ property_info.type = "Residential"
    /\ client_response = "What are the HOA fees?"
    /\ Contains(ai_response, "$450 per month")
    /\ Record.outcome = "Information provided"
    /\ Record.status = "completed"

----------------------------------------------------------------------------
(* Vocabulary of the slot properties *)

\* the candidate dates have been computed, or their computation has raised
DatesTried == "dates" \in DOMAIN exchange /\ exchange.dates # NoneValue

\* two options have been offered
Offered == DatesTried /\ options # NoneValue

\* today, today + 1 day, today + 2 days
CalendarDays(today) == <<today, AddDays(today, 1), AddDays(today, 2)>>

\* a is an earlier calendar day than b
Earlier(a, b) == ToOrdinal(a) < ToOrdinal(b)

(* C25: for every value of today's date, the last and the second-to-last   *)
(* day of a month and December 31 included, the candidate dates are        *)
(* computed without error and denote today, today + 1 day and today + 2    *)
(* days in that order, strictly increasing calendar days that roll over    *)
(* into the next month or year, in the general and in the property flow of *)
(* both agent modules.                                                     *)
C25_CandidateDates ==
    DatesTried =>
        LET days == CalendarDays(exchange.today)
        IN  /\ exchange.dates.raised = "None"
            /\ Earlier(days[1], days[2]) /\ Earlier(days[2], days[3])
            /\ exchange.dates.value
                   = <<StrftimeDate(days[1]), StrftimeDate(days[2]), StrftimeDate(days[3])>>

(* C26: in general-flow scheduling, for every random choice, the two       *)
(* offered (date, time) options are never the identical pair, the second   *)
(* option can always be chosen (neither the remaining dates nor the        *)
(* remaining times are empty), and both options are drawn from the         *)
(* computed candidate dates and the fixed candidate times.                 *)
C26_TwoDistinctOptions ==
    ("flow" \in DOMAIN exchange /\ exchange.flow = "general") =>
        /\ raised # "IndexError"
        /\ (DatesTried /\ exchange.dates.raised = "None") =>
               \A d \in Range(exchange.dates.value), t \in Range(GeneralAvailableTimes) :
                   /\ Remaining(exchange.dates.value, d) # << >>
                   /\ Remaining(GeneralAvailableTimes, t) # << >>
        /\ Offered =>
               /\ options.offered[1] # options.offered[2]
               /\ \A i \in 1..2 :
                      /\ options.offered[i].date \in Range(exchange.dates.value)
                      /\ options.offered[i].time
                             \in {"10:00 AM", "1:00 PM", "3:30 PM", "5:00 PM"}

C26_Witness ==
    /\ Offered
    /\ exchange.flow = "general"
    /\ exchange.module = "voice_agent_with_openai"
    /\ exchange.today = [year |-> 2026, month |-> 1, day |-> 15]
    /\ options.offered = <<[date |-> "Saturday, January 17", time |-> "5:00 PM"],
                           [date |-> "Thursday, January 15", time |-> "10:00 AM"]>>

(* C27: in every flow that schedules an appointment, the (date, time)      *)
(* passed to the ledger as the chosen slot is exactly the first of the two *)
(* options that were offered to the client in that call.                   *)
C27_FirstOfferedBooked ==
    ("passed" \in DOMAIN exchange /\ exchange.passed # NoneValue) =>
        exchange.passed = options.offered[1]

(* C28: the outcome string recorded on a call record is, in every flow and *)
(* under every provider variant, one of exactly "Appointment scheduled",   *)
(* "Information Provided", "Follow Up Required", "Not Interested" (the     *)
(* outcome name with underscores replaced by spaces and every word         *)
(* title-cased, appointment_scheduled being the literal "Appointment       *)
(* scheduled"), and the same outcome is recorded with the same string      *)
(* whichever flow produced it.                                             *)
C28_OutcomeStrings ==
    \A id \in DOMAIN calls :
        calls[id].outcome # NoneStr =>
            /\ calls[id].outcome \in {"Appointment scheduled", "Information Provided",
                                      "Follow Up Required", "Not Interested"}
            /\ calls[id].outcome =
                   (IF Denoted(calls[id].outcome) = "appointment_scheduled"
                    THEN "Appointment scheduled"
                    ELSE OutcomeText(Denoted(calls[id].outcome)))

----------------------------------------------------------------------------
(* Vocabulary of the accessor properties *)

\* the call ids whose record carries the client id c
IdsOfClient(c) ==
    {id \in DOMAIN calls : "id" \in DOMAIN calls[id].client /\ calls[id].client.id = c}

\* the value the last accessor call returned is the one the ledger calls for
ResultExact ==
    LET c == exchange.client_id
        res == exchange.result
    IN  IF exchange.op = "get_call_history"
        THEN IF c = NoneStr THEN res = calls
             ELSE /\ BagCardinality(res) = Cardinality(IdsOfClient(c))
                  /\ \A id \in IdsOfClient(c) : BagIn(calls[id], res)
                  /\ \A rec \in BagToSet(res) : \E id \in IdsOfClient(c) : calls[id] = rec
        ELSE IF c = NoneStr THEN res = appointments
             ELSE /\ Len(res) = Cardinality({i \in DOMAIN appointments :
                                      /\ "id" \in DOMAIN appointments[i].client
                                      /\ appointments[i].client.id = c})
                  /\ \A i \in DOMAIN res : res[i].client.id = c

\* get_appointments on a list of three appointments of two clients
AppointmentsFiltered ==
    LET john == CHOOSE c \in Clients : c.id = "client123"
        jane == CHOOSE c \in Clients : c.id = "test_client_001"
        a1 == NewAppointment(john, "Thursday, January 15", "2:00 PM", "prop001", 0, RandLow)
        a2 == NewAppointment(jane, "Friday, January 16", "10:00 AM", NoneStr, 0, RandHigh)
        a3 == NewAppointment(john, "Friday, January 16", "10:00 AM", NoneStr, 75, RandLow)
    IN  /\ get_appointments(<<a1, a2, a3>>, "client123") = <<a1, a3>>
        /\ get_appointments(<<a1, a2, a3>>, "test_client_001") = <<a2>>
        /\ get_appointments(<<a1, a2, a3>>, "client999") = << >>
        /\ get_appointments(<<a1, a2, a3>>, NoneStr) = <<a1, a2, a3>>

(* C29: after any sequence of ledger operations, get_call_history(c) for a *)
(* client id c returns exactly the call records whose client snapshot has  *)
(* id c, each once and none other, get_appointments(c) returns exactly the *)
(* appointment records whose client has id c, both without modifying the   *)
(* ledger; called with no client id they return all call records and all   *)
(* appointments.                                                           *)
C29_ReadAccessors ==
    [][exchange' # NoneValue =>
           /\ calls' = calls
           /\ appointments' = appointments
           /\ ResultExact'
           /\ AppointmentsFiltered]_vars

C29_Witness ==
    /\ pc = "ledger"
    /\ exchange # NoneValue
    /\ exchange.op = "get_call_history"
    /\ exchange.client_id = "client123"
    /\ Cardinality(DOMAIN calls) = 2
    /\ BagCardinality(exchange.result) = 1
    /\ \E id \in DOMAIN calls : ~BagIn(calls[id], exchange.result)

----------------------------------------------------------------------------
(* Vocabulary of the ordering properties *)

\* the operations of the ledger that write, in the order of one call
WriteOrder ==
    <<"log_call_start", "update_call_notes", "update_client_sentiment",
      "schedule_appointment", "update_call_outcome", "log_call_end">>

\* the ledger writes the current call has made so far
Writes == SelectSeq(ops, LAMBDA o : o \in Range(WriteOrder))

(* C30: within one call the ledger writes occur in a fixed order with no   *)
(* overlap: the open (status in-progress) first, then exactly one note,    *)
(* then the sentiment (when assessed), then the appointment (when          *)
(* scheduled), then the outcome, then the close; no note, sentiment,       *)
(* appointment or outcome write happens before the open or after the       *)
(* close.                                                                  *)
C30_WriteOrder ==
    /\ \A i, j \in DOMAIN Writes :
           i < j => Index(WriteOrder, Writes[i]) < Index(WriteOrder, Writes[j])
    /\ Writes # << >> =>
           /\ Writes[1] = "log_call_start"
           /\ Record.status = (IF "log_call_end" \in Range(Writes)
                               THEN "completed" ELSE "in-progress")
           /\ Len(Record.notes) = Count(Writes, "update_call_notes")
           /\ (Record.sentiment # NoneValue) => ("update_client_sentiment" \in Range(Writes))
           /\ (Record.outcome # NoneStr) <=> ("update_call_outcome" \in Range(Writes))
    /\ Len(Writes) >= 2 => Writes[2] = "update_call_notes"
    /\ "update_client_sentiment" \in Range(Writes) => "analyze_client_sentiment" \in Range(ops)
    /\ appointments # << >> => "schedule_appointment" \in Range(Writes)
    /\ "log_call_end" \in Range(Writes) =>
           /\ Writes[Len(Writes)] = "log_call_end"
           /\ Writes[Len(Writes) - 1] = "update_call_outcome"
           /\ Len(Record.notes) = 1

C30_Witness ==
    /\ pc = "returned"
    /\ use_openai
    /\ Writes = <<"log_call_start", "update_call_notes", "update_client_sentiment",
                  "update_call_outcome", "log_call_end">>
    /\ Len(Record.notes) = 1
    /\ Record.status = "completed"

----------------------------------------------------------------------------
(* Vocabulary of the history properties *)

\* s is an initial part of t
IsPrefix(s, t) == Len(s) <= Len(t) /\ SubSeq(t, 1, Len(s)) = s

(* C31: notes are append-only: for every call id and every sequence of     *)
(* ledger operations, further opens of other calls included, the note list *)
(* of that call in a later state has the note list of any earlier state as *)
(* a prefix; no operation removes, reorders, rewrites or resets notes      *)
(* already stored.                                                         *)
C31_NotesAppendOnly ==
    [][\A id \in DOMAIN calls :
           /\ id \in DOMAIN calls'
           /\ IsPrefix(calls[id].notes, calls'[id].notes)]_vars

C33_SentimentAbsentOrOnce ==
    /\ ~use_openai =>
           /\ \A id \in DOMAIN calls : calls[id].sentiment = NoneValue
           /\ sentiment = NoneValue
           /\ "update_client_sentiment" \notin Range(ops)
           /\ "analyze_client_sentiment" \notin Range(ops)
    /\ Count(ops, "update_client_sentiment") <= 1
    /\ (Started /\ Record.sentiment # NoneValue) =>
           /\ Count(ops, "update_client_sentiment") = 1
           /\ Record.sentiment = sentiment

C33_Witness ==
    /\ pc = "returned"
    /\ use_openai
    /\ Count(ops, "update_client_sentiment") = 1
    /\ Record.sentiment \in WellFormedAnalyses
    /\ Record.sentiment.interest_level = "low"
    /\ Record.status = "completed"

(* C34: schedule_appointment is all-or-nothing and in fact never appends:  *)
(* called with the arguments every call site passes (a time given as a     *)
(* text such as "2:00 PM"), it fails while building the appointment id,    *)
(* before anything is appended, so the appointment list of the ledger is   *)
(* empty in every reachable state, and the call that invoked it is left    *)
(* with its outcome unset and its status in-progress.                      *)
C34_ScheduleNeverAppends ==
    /\ appointments = << >>
    /\ \A time \in Range(GeneralAvailableTimes) \cup Range(PropertyAvailableTimes) :
           schedule_appointment(appointments, client_info, "Thursday, January 15", time,
                                NoneStr, now, RandLow)
               = [raised |-> "AttributeError", appointments |-> appointments]
    /\ "schedule_appointment" \in Range(ops) =>
           /\ pc = "raised"
           /\ raised = "AttributeError"
           /\ Record.outcome = NoneStr
           /\ Record.status = "in-progress"
           /\ "update_call_outcome" \notin Range(ops)
           /\ "log_call_end" \notin Range(ops)

C34_Witness ==
    /\ pc = "raised"
    /\ raised = "AttributeError"
    /\ PropertyFlow
    /\ client_response = ScheduleViewing
    /\ ops[Len(ops)] = "schedule_appointment"
    /\ appointments = << >>
    /\ Record.status = "in-progress"

(* C35: in a PropertyFlow call the outcome depends only on the simulated   *)
(* client reply, under both provider variants and whatever the sentiment   *)
(* or a random draw would be: it is "Appointment scheduled" exactly for    *)
(* the schedule-a-viewing reply and "Information provided" for every other *)
(* reply, so follow_up_required and not_interested are never recorded for  *)
(* a PropertyFlow call.                                                    *)
C35_PropertyOutcomeFromReply ==
    /\ PropertyFlow =>
           /\ Record.outcome \in {NoneStr, "Appointment scheduled", "Information provided"}
           /\ "random.choices" \notin Range(ops)
           /\ "analyze_client_sentiment" \notin Range(ops)
    /\ (PropertyFlow /\ Finished) =>
           Record.outcome = (IF client_response = ScheduleViewing
                             THEN "Appointment scheduled"
                             ELSE "Information provided")

(* C36: in the GeneralFlow under the generative strategy, when the         *)
(* sentiment step raises after the assessment was returned (the assessment *)
(* has no interest_level field, or is no dict), the error is absorbed and  *)
(* the outcome falls back to the weighted-random draw over the four        *)
(* outcomes, while the assessment already stored on the call record stays  *)
(* stored; an interest_level other than high or medium, values outside the *)
(* enumeration included, yields follow_up_required.                        *)
C36_SentimentErrorAbsorbed ==
    (/\ use_openai
     /\ GeneralFlow
     /\ pc \in {"general_finish", "end_call", "returned", "raised"}) =>
        /\ Record.sentiment = sentiment
        /\ raised \notin {"KeyError", "TypeError"}
        /\ IF sentiment.shape = "dict" /\ "interest_level" \in DOMAIN sentiment
           THEN /\ "random.choices" \notin Range(ops)
                /\ outcome = (CASE sentiment.interest_level = "high" -> "appointment_scheduled"
                                [] sentiment.interest_level = "medium" -> "information_provided"
                                [] OTHER -> "follow_up_required")
           ELSE /\ Count(ops, "random.choices") = 1
                /\ Before(ops, "update_client_sentiment", "random.choices")
                /\ outcome \in {"appointment_scheduled", "information_provided",
                                "follow_up_required", "not_interested"}

C36_Witness ==
    /\ pc = "returned"
    /\ use_openai
    /\ GeneralFlow
    /\ sentiment = [shape |-> "dict", sentiment |-> "positive"]
    /\ Record.sentiment = sentiment
    /\ outcome = "not_interested"
    /\ Record.outcome = "Not Interested"

(* C37: in both flows under the generative strategy, the request built for *)
(* the agent's reply contains the newest client utterance twice in a row:  *)
(* once as the last entry of the conversation history (appended before the *)
(* call) and once more as the current client message appended by           *)
(* generate_response, so the message list sent is system, opening agent    *)
(* turn, client turn, client turn.                                         *)
C37_ClientTurnTwice ==
    (use_openai /\ Talked) =>
        /\ "messages" \in DOMAIN exchange
        /\ Len(exchange.messages) = 4
        /\ exchange.messages[1].role = "system"
        /\ exchange.messages[2] = conversation_history[1]
        /\ exchange.messages[2].role = "assistant"
        /\ exchange.messages[3] = [role |-> "user", content |-> client_response]
        /\ exchange.messages[4] = [role |-> "user", content |-> client_response]

C37_Witness ==
    /\ pc = "returned"
    /\ use_openai
    /\ PropertyFlow
    /\ "messages" \in DOMAIN exchange
    /\ exchange.messages[3] = exchange.messages[4]
    /\ exchange.messages[4].content = "What are the HOA fees?"

(* C38: every call record that reaches status completed through make_call *)
(* holds exactly one note, written by the flow that ran (exactly one of    *)
(* GeneralFlow and PropertyFlow runs per call), and under the template     *)
(* strategy the agent reply in that note is always one of the mapped       *)
(* replies: the default fallback reply is never produced, because the      *)
(* simulated client reply is always drawn from the four phrasings that key *)
(* the mapping.                                                            *)
C38_OneNoteNoFallback ==
    /\ (Started /\ Record.status = "completed") =>
           /\ Len(Record.notes) = 1
           /\ Count(ops, "update_call_notes") = 1
           /\ Record.notes[1].content
                  = "Client: " \o client_response \o "\nAgent: " \o ai_response
    /\ Talked =>
           /\ GeneralFlow <=> ~PropertyFlow
           /\ GeneralFlow <=>
                  client_response \in
                      {"Yes, I'd like to hear more about the properties you have.",
                       "I'm not sure if I'm ready to view properties just yet.",
                       "What kind of properties do you have in that area?",
                       "I'm specifically looking for something with a garage."}
           /\ PropertyFlow <=>
                  client_response \in
                      {"That sounds interesting. Is parking included?",
                       "What are the HOA fees?",
                       "Is it close to public transportation?",
                       "I'd like to schedule a viewing."}
    /\ (~use_openai /\ Talked) =>
           /\ ai_response # "I understand. Let me find some properties that would match your needs."
           /\ ~Contains(ai_response, "I'll make a note of your question and have our property specialist get back to you")

C38_Witness ==
    /\ pc = "returned"
    /\ ~use_openai
    /\ GeneralFlow
    /\ Record.status = "completed"
    /\ Len(Record.notes) = 1
    /\ client_response = "I'm specifically looking for something with a garage."
    /\ Contains(Record.notes[1].content, "Agent: We do have several properties with garage parking.")

====
